---------------------------- MODULE Spec2Model ----------------------------
(***************************************************************************)
(* The bridge server of AQWWebLogger (src/unnamed/part_001, lines 80-901): *)
(* TCP bot clients, handshake, message normalisation, status diffing, the  *)
(* two periodic sweeps and the username poller, as one state machine.      *)
(*                                                                         *)
(* Every handler of the server is a pure operator from a server state      *)
(* record `s` to the server state after the handler; an action applies one *)
(* handler to the current state (Cur) and installs the result.             *)
(***************************************************************************)
EXTENDS Integers, Sequences, FiniteSets, TLC

(***************************************************************************)
(* Program constants (milliseconds, entries).                              *)
(***************************************************************************)
MAX_LOGS == 1000
HANDSHAKE_TIMEOUT == 10000
HEARTBEAT_TIMEOUT == 30000
SWEEP_PERIOD == 5000

(***************************************************************************)
(* Bounds of the model.                                                    *)
(***************************************************************************)
\* accepted TCP connections over a run (socket objects ever created)
MaxConns == 2
\* capacity the log rings are configured with in the lifecycle
\* specifications (SpecLog runs them at MAX_LOGS)
LogCap == 1

ClientIds == {"c1"}
\* the ids when two clients are connected
TwoClientIds == {"c1", "c2"}
HANDSHAKE_SECRET == "secret"

(***************************************************************************)
(* JSON values, tagged with their JavaScript type.                         *)
(***************************************************************************)
Undef == [t |-> "undefined"]
Null == [t |-> "null"]
Bool(b) == [t |-> "boolean", b |-> b]
Str(x) == [t |-> "string", s |-> x]
Obj(f) == [t |-> "object", f |-> f]

NoKeys == [k \in {} |-> Undef]

\* obj[key] / obj?.[key]: undefined for a key the object does not have
Get(o, k) == IF k \in DOMAIN o THEN o[k] ELSE Undef

\* JavaScript truthiness of a value
Truthy(v) ==
  CASE v.t = "undefined" -> FALSE
    [] v.t = "null" -> FALSE
    [] v.t = "boolean" -> v.b
    [] v.t = "string" -> v.s # ""
    [] OTHER -> TRUE

\* typeof: null is an object
TypeOf(v) == IF v.t = "null" THEN "object" ELSE v.t

\* obj1 === obj2 on values that are not both objects (two parsed objects are
\* never the same reference)
StrictEq(a, b) ==
  /\ a.t = b.t
  /\ CASE a.t = "boolean" -> a.b = b.b
       [] a.t = "string" -> a.s = b.s
       [] a.t = "object" -> FALSE
       [] OTHER -> TRUE

RECURSIVE deepCompare(_, _)
deepCompare(obj1, obj2) ==
  IF StrictEq(obj1, obj2) THEN TRUE
  ELSE IF obj1.t \in {"null", "undefined"} \/ obj2.t \in {"null", "undefined"}
  THEN FALSE
  ELSE IF TypeOf(obj1) # TypeOf(obj2) THEN FALSE
  ELSE IF obj1.t = "object"
  THEN /\ Cardinality(DOMAIN obj1.f) = Cardinality(DOMAIN obj2.f)
       /\ \A key \in DOMAIN obj1.f :
            /\ key \in DOMAIN obj2.f
            /\ deepCompare(obj1.f[key], obj2.f[key])
  ELSE FALSE

\* The changes object: a key of the union whose values differ is set to
\* newState[key], which is undefined for a key newState lacks.  The result
\* is NoChanges (null) when no key differs.
NoChanges == [none |-> TRUE]
getChangedFields(oldState, newState) ==
  LET allKeys == DOMAIN oldState \cup DOMAIN newState
      diff == {key \in allKeys :
                 ~deepCompare(Get(oldState, key), Get(newState, key))}
  IN IF diff = {} THEN NoChanges
     ELSE [none |-> FALSE, f |-> [key \in diff |-> Get(newState, key)]]

\* JSON.stringify of an object: a key whose value is undefined is left out
RECURSIVE Stringify(_)
Stringify(v) ==
  IF v.t = "object"
  THEN Obj([k \in {key \in DOMAIN v.f : v.f[key].t # "undefined"} |->
              Stringify(v.f[k])])
  ELSE v


(***************************************************************************)
(* State.  The ten tables of the server (lines 98-107) are functions whose *)
(* DOMAIN is the set of client ids the table holds.                        *)
(***************************************************************************)
VARIABLES
  tcpClients,            \* clientId -> socket (index into sockets)
  clientLogs,            \* clientId -> sequence of log entries
  clientNames,           \* clientId -> name
  clientStatus,          \* clientId -> [loaded, logged, scriptRunning, loadedScript]
  clientLastHeartbeat,   \* clientId -> time
  masterLog,             \* sequence of log entries
  pendingHandshakes,     \* clientId -> [challenge, timestamp, authenticated]
  clientStateCache,      \* clientId -> cached status object
  clientUsernameStatus,  \* clientId -> [hasUsername, requestSent, checker]
  sockets,               \* every socket accepted so far:
                         \*   [id, state, timer, due, by, responded]
  crashed,               \* an exception escaped a handler: the process is gone
  cap,                   \* the capacity the log rings run with
  discCount,             \* clientId -> client_disconnect events since its last client_connect
  statusSeen,            \* clientId -> the last status_update handled on its connection
  wsClients,             \* observer -> [readyState, got]: the browser sockets in
                         \*   the set, and what the last handler sent to each
  last,                  \* the handler that ran last, what it published and wrote
  frontEnd               \* the reducer state of the observer front-end

vars == <<tcpClients, clientLogs, clientNames, clientStatus,
          clientLastHeartbeat, masterLog, pendingHandshakes,
          clientStateCache, clientUsernameStatus, sockets,
          crashed, cap, discCount, statusSeen, wsClients, last,
          frontEnd>>

\* The current state as the record the handlers work on; out and wr collect
\* what one handler publishes to the observers and writes to client sockets.
\* Times are measured from the present instant: Date.now() is 0 and every
\* stored time is 0 or negative (see Tick).
Cur ==
  [tcpClients |-> tcpClients, clientLogs |-> clientLogs,
   clientNames |-> clientNames, clientStatus |-> clientStatus,
   clientLastHeartbeat |-> clientLastHeartbeat, masterLog |-> masterLog,
   pendingHandshakes |-> pendingHandshakes,
   clientStateCache |-> clientStateCache,
   clientUsernameStatus |-> clientUsernameStatus, sockets |-> sockets,
   now |-> 0, crashed |-> crashed, cap |-> cap, discCount |-> discCount,
   statusSeen |-> statusSeen,
   wsClients |-> [o \in DOMAIN wsClients |-> [wsClients[o] EXCEPT !.got = <<>>]],
   out |-> <<>>, wr |-> <<>>]

Del(f, id) == [k \in DOMAIN f \ {id} |-> f[k]]
Put(f, id, v) == [k \in DOMAIN f \cup {id} |-> IF k = id THEN v ELSE f[k]]
NoEntries == [k \in {} |-> 0]

DefaultStatus ==
  [loaded |-> Bool(FALSE), logged |-> Bool(FALSE),
   scriptRunning |-> Bool(FALSE), loadedScript |-> Str("")]
StatusFields == {"loaded", "logged", "scriptRunning", "loadedScript"}

\* `${clientNames[clientId]}` in a template string
NameOf(s, id) ==
  IF id \in DOMAIN s.clientNames THEN s.clientNames[id] ELSE "undefined"

Entry(tag, arg) == [tag |-> tag, arg |-> arg]

(***************************************************************************)
(* Helpers (lines 601-654).                                                *)
(***************************************************************************)
\* Since the last client_connect for an id, the client_disconnect events
\* published for it.
CountDisconnect(d, obj) ==
  IF obj.type = "client_disconnect" THEN [d EXCEPT ![obj.id] = @ + 1]
  ELSE IF obj.type = "client_connect" THEN [d EXCEPT ![obj.id] = 0]
  ELSE d

\* JSON.stringify(obj) of an event: its status, changes and value members
\* are JSON values
Json(obj) ==
  CASE obj.type = "status_update_json" ->
         [obj EXCEPT !.status = Stringify(@), !.changes = Stringify(@)]
    [] obj.type = "update_status" -> [obj EXCEPT !.value = Stringify(@)]
    [] OTHER -> obj

\* ws.send(json) on one browser socket
Send(ws, json) == [ws EXCEPT !.got = Append(@, json)]

\* a variant that sends without looking at readyState
broadcastToBrowsersAll(s, obj) ==
  [s EXCEPT !.out = Append(@, Json(obj)),
            !.discCount = CountDisconnect(@, obj),
            !.wsClients = [o \in DOMAIN @ |-> Send(@[o], Json(obj))]]

broadcastToBrowsers(s, obj) ==
  [s EXCEPT !.out = Append(@, Json(obj)),
            !.discCount = CountDisconnect(@, obj),
            !.wsClients = [o \in DOMAIN @ |->
                             IF @[o].readyState = "OPEN"
                             THEN Send(@[o], Json(obj)) ELSE @[o]]]

\* a variant that pops where the source shifts
RingPop(log, msg, capacity) ==
  LET pushed == Append(log, msg)
  IN IF Len(pushed) > capacity THEN SubSeq(pushed, 1, capacity) ELSE pushed

\* push, then shift when the ring is over capacity
Ring(log, msg, capacity) ==
  LET pushed == Append(log, msg)
  IN IF Len(pushed) > capacity THEN Tail(pushed) ELSE pushed

addClientLog(s, id, msg) ==
  LET old == IF id \in DOMAIN s.clientLogs THEN s.clientLogs[id] ELSE <<>>
      s1 == [s EXCEPT !.clientLogs = Put(@, id, Ring(old, msg, s.cap))]
  IN broadcastToBrowsers(s1, [type |-> "log", id |-> id, message |-> msg])

\* msg.replace(clientId, clientNames[clientId]) when the id has a name
addMasterLog(s, tag, clientId) ==
  LET who == IF clientId \in DOMAIN s.clientNames /\ s.clientNames[clientId] # ""
             THEN s.clientNames[clientId] ELSE clientId
      logEntry == Entry(tag, <<who>>)
      s1 == [s EXCEPT !.masterLog = Ring(@, logEntry, s.cap)]
  IN broadcastToBrowsers(s1, [type |-> "master_log", message |-> logEntry])

\* a variant that announces the clear and keeps the entries
clearMasterLogKeeps(s) ==
  broadcastToBrowsers(s, [type |-> "clear_master_log"])

clearMasterLog(s) ==
  broadcastToBrowsers([s EXCEPT !.masterLog = <<>>],
                      [type |-> "clear_master_log"])

\* a variant that publishes the field and does not store it
updateStatusPublishOnly(s, id, field, value) ==
  broadcastToBrowsers(s, [type |-> "update_status", id |-> id,
                          field |-> field, value |-> value])

updateStatus(s, id, field, value) ==
  LET cur == IF id \in DOMAIN s.clientStatus THEN s.clientStatus[id]
             ELSE DefaultStatus
      s1 == [s EXCEPT !.clientStatus = Put(@, id, [cur EXCEPT ![field] = value])]
  IN broadcastToBrowsers(s1, [type |-> "update_status", id |-> id,
                              field |-> field, value |-> value])

stopUsernameChecker(s, clientId) ==
  IF clientId \in DOMAIN s.clientUsernameStatus
     /\ s.clientUsernameStatus[clientId].checker
  THEN addClientLog(
         [s EXCEPT !.clientUsernameStatus[clientId].checker = FALSE],
         clientId, Entry("Username checker stopped", <<>>))
  ELSE s

cleanupClient(s, id) ==
  LET s1 == [s EXCEPT !.tcpClients = Del(@, id),
                      !.clientLogs = Del(@, id),
                      !.clientNames = Del(@, id),
                      !.clientStatus = Del(@, id),
                      !.clientLastHeartbeat = Del(@, id),
                      !.pendingHandshakes = Del(@, id),
                      !.clientStateCache = Del(@, id)]
      s2 == stopUsernameChecker(s1, id)
  IN [s2 EXCEPT !.clientUsernameStatus = Del(@, id)]

\* socket.write: the client receives the line while the socket is open
Write(s, sock, line) ==
  IF s.sockets[sock].state = "open"
  THEN [s EXCEPT !.wr = Append(@, [sock |-> sock, line |-> line])]
  ELSE s

\* socket.destroy(): the 'close' event follows; destroying twice does nothing.
\* by names the caller.
Destroy(s, sock, by) ==
  IF s.sockets[sock].state = "open"
  THEN [s EXCEPT !.sockets[sock].state = "destroyed", !.sockets[sock].by = by]
  ELSE s

\* a variant that only looks for the handshake record
isClientAuthenticatedAnyRecord(s, clientId) ==
  clientId \in DOMAIN s.pendingHandshakes

isClientAuthenticated(s, clientId) ==
  /\ clientId \in DOMAIN s.pendingHandshakes
  /\ s.pendingHandshakes[clientId].authenticated

(***************************************************************************)
(* Client lines.  A line is what one trimmed, non-empty line of a TCP read *)
(* holds:                                                                  *)
(*   [kind |-> "hs", raw, resp]           $HandshakeResponse:<hex>         *)
(*   [kind |-> "json", raw, json]         a line JSON.parse accepts        *)
(*   [kind |-> "text", raw, parts, rest]  any other text; parts is         *)
(*        raw.split(':') and rest the text after the first colon           *)
(* A parsed JSON message is [type, clientName, status, username, message]  *)
(* with Undef for a member the object does not have.                       *)
(***************************************************************************)
Msg(type, clientName, status, username, message) ==
  [type |-> type, clientName |-> clientName, status |-> status,
   username |-> username, message |-> message]

\* the keys of the model's status objects, in the order a join lists them
KeyOrder == <<"loaded", "logged", "scriptRunning", "loadedScript", "extra">>

KeysOf(v) == IF v.t = "object" THEN v.f ELSE NoKeys

(***************************************************************************)
(* Handshake utilities (lines 115-131).  A challenge is the nonce of the   *)
(* socket it was issued to; the HMAC is the pair it is computed from, 32   *)
(* bytes long.                                                             *)
(***************************************************************************)
computeHandshakeResponse(challenge, secret) ==
  [len |-> 32, mac |-> <<challenge, secret>>]

\* a variant with the comparison inverted
isValidHandshakeResponseInverted(challenge, response, secret) ==
  LET expectedResponse == computeHandshakeResponse(challenge, secret)
  IN IF response.len # expectedResponse.len THEN "throw"
     ELSE IF response.mac # expectedResponse.mac THEN "true" ELSE "false"

\* crypto.timingSafeEqual throws on buffers of different byte length
isValidHandshakeResponse(challenge, response, secret) ==
  LET expectedResponse == computeHandshakeResponse(challenge, secret)
  IN IF response.len # expectedResponse.len THEN "throw"
     ELSE IF response.mac = expectedResponse.mac THEN "true" ELSE "false"

(***************************************************************************)
(* Username poller (lines 806-899).                                        *)
(***************************************************************************)
sendUsernameRequest(s, clientId) ==
  IF clientId \notin DOMAIN s.tcpClients \/ ~isClientAuthenticated(s, clientId)
  THEN [ok |-> FALSE, s |-> s]
  ELSE [ok |-> TRUE,
        s |-> addClientLog(
                Write(s, s.tcpClients[clientId], "username_request"),
                clientId, Entry("Server requested username from client", <<>>))]

startUsernameChecker(s, clientId) ==
  IF clientId \in DOMAIN s.clientUsernameStatus
     /\ s.clientUsernameStatus[clientId].checker
  THEN s
  ELSE addClientLog(
         [s EXCEPT !.clientUsernameStatus =
            Put(@, clientId, [hasUsername |-> FALSE, requestSent |-> FALSE,
                              checker |-> TRUE])],
         clientId, Entry("Started username monitoring", <<>>))

\* the setInterval callback of startUsernameChecker (lines 842-860)
usernameCheckerTick(s, clientId) ==
  LET status == s.clientUsernameStatus[clientId]
  IN IF status.hasUsername
     THEN addClientLog(
            [s EXCEPT !.clientUsernameStatus[clientId].checker = FALSE],
            clientId, Entry("Username checker stopped - username received", <<>>))
     ELSE IF ~status.requestSent
     THEN LET r == sendUsernameRequest(s, clientId)
          IN IF r.ok
             THEN addClientLog(
                    [r.s EXCEPT !.clientUsernameStatus[clientId].requestSent = TRUE],
                    clientId, Entry("Username request sent to client", <<>>))
             ELSE r.s
     ELSE s

\* a variant that announces the name without comparing it
handleUsernameResponseAlways(s, clientId, username) ==
  IF ~Truthy(username)
  THEN addClientLog(s, clientId, Entry("Username response received but empty", <<>>))
  ELSE LET oldName == NameOf(s, clientId)
           s1 == [s EXCEPT !.clientNames = Put(@, clientId, username.s)]
           s2 == IF clientId \in DOMAIN s1.clientUsernameStatus
                 THEN [s1 EXCEPT !.clientUsernameStatus[clientId].hasUsername = TRUE]
                 ELSE s1
           s3 == addClientLog(s2, clientId, Entry("Username received", <<username.s>>))
       IN addClientLog(
            broadcastToBrowsers(s3, [type |-> "update_tab_name",
                                     id |-> clientId, name |-> username.s]),
            clientId, Entry("Tab name updated", <<oldName, username.s>>))

\* a variant that takes every string for a username, the empty one too
handleUsernameResponseAnyString(s, clientId, username) ==
  IF username.t # "string"
  THEN addClientLog(s, clientId, Entry("Username response received but empty", <<>>))
  ELSE LET oldName == NameOf(s, clientId)
           s1 == [s EXCEPT !.clientNames = Put(@, clientId, username.s)]
           s2 == IF clientId \in DOMAIN s1.clientUsernameStatus
                 THEN [s1 EXCEPT !.clientUsernameStatus[clientId].hasUsername = TRUE]
                 ELSE s1
           s3 == addClientLog(s2, clientId, Entry("Username received", <<username.s>>))
       IN IF oldName # username.s
          THEN addClientLog(
                 broadcastToBrowsers(s3, [type |-> "update_tab_name",
                                          id |-> clientId, name |-> username.s]),
                 clientId, Entry("Tab name updated", <<oldName, username.s>>))
          ELSE s3

handleUsernameResponse(s, clientId, username) ==
  IF ~Truthy(username)
  THEN addClientLog(s, clientId, Entry("Username response received but empty", <<>>))
  ELSE LET oldName == NameOf(s, clientId)
           s1 == [s EXCEPT !.clientNames = Put(@, clientId, username.s)]
           s2 == IF clientId \in DOMAIN s1.clientUsernameStatus
                 THEN [s1 EXCEPT !.clientUsernameStatus[clientId].hasUsername = TRUE]
                 ELSE s1
           s3 == addClientLog(s2, clientId, Entry("Username received", <<username.s>>))
       IN IF oldName # username.s
          THEN addClientLog(
                 broadcastToBrowsers(s3, [type |-> "update_tab_name",
                                          id |-> clientId, name |-> username.s]),
                 clientId, Entry("Tab name updated", <<oldName, username.s>>))
          ELSE s3

(***************************************************************************)
(* Status diffing and message processing (lines 168-301).                  *)
(***************************************************************************)
\* lines 223-226: one updateStatus per well-known field the changes hold
\* with a value that is not undefined
RECURSIVE ProjectStatus(_, _, _, _)
ProjectStatus(s, clientId, changes, fields) ==
  IF fields = <<>> THEN s
  ELSE LET field == Head(fields)
           s1 == IF Get(changes, field).t # "undefined"
                 THEN updateStatus(s, clientId, field, changes[field])
                 ELSE s
       IN ProjectStatus(s1, clientId, changes, Tail(fields))

\* a variant that leaves the cache as it is
UpdateCacheSkip(cache, clientId, newStatus) == cache

\* clientStateCache[clientId] = { ...newStatus }
UpdateCache(cache, clientId, newStatus) == Put(cache, clientId, KeysOf(newStatus))

\* the status_update handled last on a connection, and whether it was
\* published as a status_update_json
Seen(s, clientId, newStatus, published) ==
  [s EXCEPT !.statusSeen = Put(@, clientId, [status |-> newStatus,
                                             published |-> published])]

handleStatusUpdate(s, clientId, newStatus) ==
  IF ~Truthy(newStatus)
  THEN addClientLog(Seen(s, clientId, newStatus, FALSE), clientId,
                    Entry("Status update - no status data", <<>>))
  ELSE LET oldStatus == IF clientId \in DOMAIN s.clientStateCache
                        THEN s.clientStateCache[clientId] ELSE NoKeys
           changes == getChangedFields(oldStatus, KeysOf(newStatus))
       IN IF changes.none
          THEN addClientLog(Seen(s, clientId, newStatus, FALSE), clientId,
                            Entry("Status update - no changes detected", <<>>))
          ELSE LET s1 == [Seen(s, clientId, newStatus, TRUE)
                            EXCEPT !.clientStateCache =
                                     UpdateCache(@, clientId, newStatus)]
                   s2 == ProjectStatus(s1, clientId, changes.f,
                           <<"loaded", "logged", "scriptRunning", "loadedScript">>)
                   s3 == broadcastToBrowsers(s2,
                           [type |-> "status_update_json", id |-> clientId,
                            status |-> newStatus,
                            changes |-> Obj(changes.f)])
               IN addClientLog(s3, clientId,
                    Entry("Status updated - Changes",
                          SelectSeq(KeyOrder, LAMBDA k : k \in DOMAIN changes.f)))

\* a variant whose heartbeat case does nothing
processJsonMessageNoStamp(s, clientId, jsonData) ==
  LET clientName == jsonData.clientName
      s1 == IF Truthy(clientName) /\ clientName.s # NameOf(s, clientId)
            THEN broadcastToBrowsers(
                   [s EXCEPT !.clientNames = Put(@, clientId, clientName.s)],
                   [type |-> "update_tab_name", id |-> clientId,
                    name |-> clientName.s])
            ELSE s
  IN CASE jsonData.type = "status_update" ->
            handleStatusUpdate(s1, clientId, jsonData.status)
       [] jsonData.type = "heartbeat" -> s1
       [] jsonData.type = "username_response" ->
            handleUsernameResponse(s1, clientId, jsonData.username)
       [] jsonData.type = "log" ->
            IF Truthy(jsonData.message)
            THEN addClientLog(s1, clientId, Entry("", <<jsonData.message.s>>))
            ELSE s1
       [] OTHER ->
            addClientLog(s1, clientId,
                         Entry("Unknown JSON message type", <<jsonData.type>>))

processJsonMessage(s, clientId, jsonData) ==
  LET clientName == jsonData.clientName
      s1 == IF Truthy(clientName) /\ clientName.s # NameOf(s, clientId)
            THEN broadcastToBrowsers(
                   [s EXCEPT !.clientNames = Put(@, clientId, clientName.s)],
                   [type |-> "update_tab_name", id |-> clientId,
                    name |-> clientName.s])
            ELSE s
  IN CASE jsonData.type = "status_update" ->
            handleStatusUpdate(s1, clientId, jsonData.status)
       [] jsonData.type = "heartbeat" ->
            [s1 EXCEPT !.clientLastHeartbeat = Put(@, clientId, s.now)]
       [] jsonData.type = "username_response" ->
            handleUsernameResponse(s1, clientId, jsonData.username)
       [] jsonData.type = "log" ->
            IF Truthy(jsonData.message)
            THEN addClientLog(s1, clientId, Entry("", <<jsonData.message.s>>))
            ELSE s1
       [] OTHER ->
            addClientLog(s1, clientId,
                         Entry("Unknown JSON message type", <<jsonData.type>>))

\* 'true' === split(':')[1].trim().toLowerCase()
IsTrue(token) == token \in {"true", "True", "TRUE"}

\* the message a legacy line becomes, given the status it carries forward
legacyMessage(currentStatus, message) ==
  LET prefix == IF Len(message.parts) >= 2 THEN message.parts[1] ELSE ""
      With(field, value) == Obj(Put(currentStatus, field, value))
      Update(status) == Msg("status_update", Undef, status, Undef, Undef)
  IN CASE prefix = "$ClientName" ->
            Msg("status_update", Str(message.rest), Obj(currentStatus), Undef, Undef)
       [] prefix = "$IsLoaded" ->
            Update(With("loaded", Bool(IsTrue(message.parts[2]))))
       [] prefix = "$IsLogged" ->
            Update(With("logged", Bool(IsTrue(message.parts[2]))))
       [] prefix = "$IsScriptRunning" ->
            Update(With("scriptRunning", Bool(IsTrue(message.parts[2]))))
       [] prefix = "$LoadedScript" ->
            Update(With("loadedScript", Str(message.rest)))
       [] OTHER ->
            IF message.raw = "$Heartbeat"
            THEN Msg("heartbeat", Undef, Undef, Undef, Undef)
            ELSE Msg("log", Undef, Undef, Undef, Str(message.raw))

\* a variant that forgets what the client reported before
convertLegacyToJsonNoCache(s, clientId, message) ==
  legacyMessage(DefaultStatus, message)

convertLegacyToJson(s, clientId, message) ==
  legacyMessage(IF clientId \in DOMAIN s.clientStateCache
                THEN s.clientStateCache[clientId]
                ELSE DefaultStatus,
                message)

(***************************************************************************)
(* Handshake (lines 656-715).                                              *)
(***************************************************************************)
Disconnect(id) == [type |-> "client_disconnect", id |-> id]

\* handshake.authenticated = true
\* a variant that flips the flag instead of setting it
AuthenticateFlip(handshake) == [handshake EXCEPT !.authenticated = ~@]

Authenticate(handshake) == [handshake EXCEPT !.authenticated = TRUE]

\* The challenge of a socket is its index: fresh for every connection.  The
\* setTimeout of lines 669-676 is armed on the socket record.
startHandshake(s, sock, clientId) ==
  LET challenge == sock
      s1 == [s EXCEPT !.pendingHandshakes =
                        Put(@, clientId, [challenge |-> challenge,
                                          timestamp |-> s.now,
                                          authenticated |-> FALSE])]
      s2 == Write(s1, sock, "HandshakeChallenge")
      s3 == addMasterLog(s2, "Handshake challenge sent to", clientId)
  IN [s3 EXCEPT !.sockets[sock].timer = TRUE,
                !.sockets[sock].due = s.now + HANDSHAKE_TIMEOUT]

\* the setTimeout callback of startHandshake (lines 669-676)
handshakeTimeout(s, sock, clientId) ==
  IF clientId \in DOMAIN s.pendingHandshakes
     /\ ~s.pendingHandshakes[clientId].authenticated
  THEN broadcastToBrowsers(
         cleanupClient(
           Destroy(addMasterLog(s, "Handshake timeout for", clientId), sock,
                   "handshakeTimeout"),
           clientId),
         Disconnect(clientId))
  ELSE s

processHandshakeResponse(s, sock, clientId, response) ==
  IF clientId \notin DOMAIN s.pendingHandshakes
  THEN Destroy(addMasterLog(s, "Unexpected handshake response from", clientId),
               sock, "handshakeResponse")
  ELSE LET handshake == s.pendingHandshakes[clientId]
           Reject(tag) ==
             broadcastToBrowsers(
               cleanupClient(Destroy(addMasterLog(s, tag, clientId), sock,
                                     "handshakeResponse"),
                             clientId),
               Disconnect(clientId))
           valid == isValidHandshakeResponse(handshake.challenge, response,
                                             HANDSHAKE_SECRET)
       IN IF s.now - handshake.timestamp > HANDSHAKE_TIMEOUT
          THEN Reject("Handshake response too late from")
          ELSE IF valid = "throw"
          THEN [s EXCEPT !.crashed = TRUE]
          ELSE IF valid = "true"
          THEN startUsernameChecker(
                 addMasterLog(
                   Write([s EXCEPT !.pendingHandshakes[clientId] =
                                     Authenticate(handshake)],
                         sock, "HandshakeSuccess"),
                   "Handshake successful for", clientId),
                 clientId)
          ELSE Reject("Handshake failed - invalid response")

(***************************************************************************)
(* TCP server (lines 718-770).                                             *)
(***************************************************************************)
\* the connection callback; sock is the index the new socket gets
onConnection(s, sock, clientId) ==
  LET s0 == [s EXCEPT !.sockets = Append(@, [id |-> clientId, state |-> "open",
                                             timer |-> FALSE, due |-> 0,
                                             by |-> "", responded |-> FALSE])]
      s1 == [s0 EXCEPT !.statusSeen = Del(@, clientId),
                       !.tcpClients = Put(@, clientId, sock),
                       !.clientNames = Put(@, clientId, clientId),
                       !.clientStatus = Put(@, clientId, DefaultStatus),
                       !.clientLastHeartbeat = Put(@, clientId, s.now)]
      s2 == addClientLog(s1, clientId,
                         Entry("connected - awaiting handshake", <<clientId>>))
      s3 == addMasterLog(s2, "Client connected - initiating handshake", clientId)
      s4 == broadcastToBrowsers(s3, [type |-> "client_connect", id |-> clientId,
                                     name |-> clientId])
  IN startHandshake(s4, sock, clientId)

\* the body of lines.forEach in socket.on('data'); an exception that escapes
\* it ends the loop (and the process)
onLine(s, sock, clientId, msg) ==
  IF s.crashed THEN s
  ELSE IF msg.kind = "hs"
  THEN processHandshakeResponse(s, sock, clientId, msg.resp)
  ELSE IF ~isClientAuthenticated(s, clientId)
  THEN addClientLog(s, clientId,
                    Entry("Unauthenticated message rejected", <<msg.raw>>))
  ELSE IF msg.kind = "json"
  THEN processJsonMessage(s, clientId, msg.json)
  ELSE processJsonMessage(s, clientId, convertLegacyToJson(s, clientId, msg))

\* a variant that handles the rest of a read before its first line
RECURSIVE onDataBackwards(_, _, _, _)
onDataBackwards(s, sock, clientId, lines) ==
  IF lines = <<>> THEN s
  ELSE onLine(onDataBackwards(s, sock, clientId, Tail(lines)), sock, clientId,
              Head(lines))

RECURSIVE onData(_, _, _, _)
onData(s, sock, clientId, lines) ==
  IF lines = <<>> THEN s
  ELSE onData(onLine(s, sock, clientId, Head(lines)), sock, clientId,
              Tail(lines))

onClose(s, sock, clientId) ==
  LET s1 == addClientLog(s, clientId,
                         Entry("disconnected", <<NameOf(s, clientId)>>))
      s2 == addMasterLog(s1, "Client disconnected", clientId)
      s3 == broadcastToBrowsers(s2, Disconnect(clientId))
      s4 == cleanupClient(s3, clientId)
  IN [s4 EXCEPT !.sockets[sock].state = "closed",
                !.sockets[sock].by = "",
                !.sockets[sock].responded = FALSE,
                !.statusSeen = Del(@, clientId)]

onError(s, sock, clientId) ==
  Destroy(addClientLog(s, clientId, Entry("error", <<NameOf(s, clientId)>>)),
          sock, "error")

(***************************************************************************)
(* The periodic sweeps (lines 773-798).  Object.keys lists the ids in the  *)
(* order they were inserted, which is the order of their sockets.          *)
(***************************************************************************)
RECURSIVE KeysInOrder(_)
KeysInOrder(rank) ==
  IF DOMAIN rank = {} THEN <<>>
  ELSE LET first == CHOOSE id \in DOMAIN rank :
                      \A other \in DOMAIN rank : rank[id] <= rank[other]
       IN <<first>> \o KeysInOrder(Del(rank, first))

heartbeatEvict(s, id) ==
  LET heartbeat == IF id \in DOMAIN s.clientLastHeartbeat
                   THEN s.clientLastHeartbeat[id] ELSE 0
  IN IF isClientAuthenticated(s, id) /\ s.now - heartbeat > HEARTBEAT_TIMEOUT
     THEN LET s1 == addMasterLog(s, "Client timeout", id)
              s2 == IF id \in DOMAIN s1.tcpClients
                    THEN Destroy(s1, s1.tcpClients[id], "heartbeatSweep") ELSE s1
          IN broadcastToBrowsers(cleanupClient(s2, id), Disconnect(id))
     ELSE s

RECURSIVE heartbeatSweepOver(_, _)
heartbeatSweepOver(s, ids) ==
  IF ids = <<>> THEN s
  ELSE heartbeatSweepOver(heartbeatEvict(s, Head(ids)), Tail(ids))

heartbeatSweep(s) ==
  heartbeatSweepOver(s, KeysInOrder(s.tcpClients))

handshakeEvict(s, id) ==
  LET handshake == s.pendingHandshakes[id]
  IN IF ~handshake.authenticated
        /\ s.now - handshake.timestamp > HANDSHAKE_TIMEOUT
     THEN LET s1 == IF id \in DOMAIN s.tcpClients
                    THEN Destroy(s, s.tcpClients[id], "handshakeSweep") ELSE s
          IN broadcastToBrowsers(cleanupClient(s1, id), Disconnect(id))
     ELSE s

RECURSIVE handshakeSweepOver(_, _)
handshakeSweepOver(s, ids) ==
  IF ids = <<>> THEN s
  ELSE handshakeSweepOver(handshakeEvict(s, Head(ids)), Tail(ids))

handshakeSweep(s) ==
  handshakeSweepOver(s,
    KeysInOrder([id \in DOMAIN s.pendingHandshakes |->
                   s.pendingHandshakes[id].challenge]))

(***************************************************************************)
(* Inputs: the lines a client may send on socket sock.                     *)
(***************************************************************************)
HsLine(raw, resp) == [kind |-> "hs", raw |-> raw, resp |-> resp]
JsonLine(raw, json) == [kind |-> "json", raw |-> raw, json |-> json]
TextLine(raw, parts, rest) ==
  [kind |-> "text", raw |-> raw, parts |-> parts, rest |-> rest]

\* the response to the socket's own challenge under the shared secret
GoodResponse(sock) == HsLine("hs-good", computeHandshakeResponse(sock, HANDSHAKE_SECRET))
\* a response of the right length under another secret
BadResponse(sock) == HsLine("hs-bad", computeHandshakeResponse(sock, "guess"))
\* a response whose hex decodes to fewer bytes than the expected HMAC
ShortResponse(sock) == HsLine("hs-short", [len |-> 16, mac |-> <<sock, "guess">>])

StatusOf(loaded, script) ==
  Obj([loaded |-> Bool(loaded), logged |-> Bool(FALSE),
       scriptRunning |-> Bool(FALSE), loadedScript |-> Str(script)])

StatusUpdate(raw, status) == JsonLine(raw, Msg("status_update", Undef, status, Undef, Undef))

LifecycleLines(sock) ==
  { GoodResponse(sock), BadResponse(sock), ShortResponse(sock),
    StatusUpdate("json-status-loaded", StatusOf(TRUE, "")),
    JsonLine("json-heartbeat", Msg("heartbeat", Undef, Undef, Undef, Undef)),
    JsonLine("json-username", Msg("username_response", Undef, Undef, Str("Alice"), Undef)),
    TextLine("hello", <<"hello">>, "") }

\* one read: a single line, or a handshake response with a second line
\* behind it in the same buffer
LifecycleReads(sock) ==
  { <<line>> : line \in LifecycleLines(sock) }
    \cup { <<first, second>> :
             first \in {GoodResponse(sock), BadResponse(sock)},
             second \in {TextLine("hello", <<"hello">>, ""),
                         StatusUpdate("json-status-loaded", StatusOf(TRUE, ""))} }

(***************************************************************************)
(* The observer front-end (part_000).  Its state is the reducer state of   *)
(* the page: the client table, in the key order of the object, and the     *)
(* master log.  debugInfo, the ten lines of the debug panel, is left out.  *)
(***************************************************************************)
\* the browser socket of the front-end among the observers
Browser == "ui"

initialState ==
  [clients |-> NoEntries, ids |-> <<>>, masterLogs |-> <<>>,
   activeClient |-> "null", wsStatus |-> "connecting"]

\* the text React shows for a name
NameText(v) ==
  CASE v.t = "string" -> v.s
    [] v.t = "boolean" -> IF v.b THEN "true" ELSE "false"
    [] OTHER -> "[object Object]"

Dispatch(type, id, arg) == [type |-> type, id |-> id, arg |-> arg]

\* lines 67-180
appReducer(state, action) ==
  LET known == action.id \in DOMAIN state.clients
  IN CASE action.type = "CLIENT_CONNECT" ->
            [state EXCEPT
               !.clients = Put(@, action.id,
                               [id |-> action.id,
                                name |-> IF action.arg # "" THEN action.arg
                                         ELSE action.id,
                                status |-> DefaultStatus,
                                logs |-> <<>>,
                                connected |-> TRUE]),
               !.ids = IF known THEN @ ELSE Append(@, action.id),
               !.activeClient = IF @ \in {"null", ""} THEN action.id ELSE @]
       [] action.type = "CLIENT_DISCONNECT" ->
            LET remainingIds == SelectSeq(state.ids, LAMBDA k : k # action.id)
            IN [state EXCEPT
                  !.clients = Del(@, action.id),
                  !.ids = remainingIds,
                  !.activeClient =
                     IF @ = action.id
                     THEN (IF Len(remainingIds) > 0 THEN remainingIds[1]
                           ELSE "null")
                     ELSE @]
       [] action.type = "UPDATE_TAB_NAME" ->
            IF ~known THEN state
            ELSE [state EXCEPT !.clients[action.id].name = action.arg]
       [] action.type = "UPDATE_STATUS" ->
            IF ~known THEN state
            ELSE [state EXCEPT !.clients[action.id].status =
                                  Put(@, action.arg.field, action.arg.value)]
       [] action.type = "ADD_CLIENT_LOG" ->
            IF ~known THEN state
            ELSE [state EXCEPT !.clients[action.id].logs = Append(@, action.arg)]
       [] action.type = "ADD_MASTER_LOG" ->
            [state EXCEPT !.masterLogs = Append(@, action.arg)]
       [] action.type = "CLEAR_MASTER_LOG" ->
            [state EXCEPT !.masterLogs = <<>>]
       [] action.type = "SET_WS_STATUS" ->
            [state EXCEPT !.wsStatus = action.arg]
       [] OTHER -> state

RECURSIVE dispatchAll(_, _)
dispatchAll(state, actions) ==
  IF actions = <<>> THEN state
  ELSE dispatchAll(appReducer(state, Head(actions)), Tail(actions))

\* lines 205-286: what one message from the server dispatches.  The
\* callback is memoised on addDebugInfo alone, so the `state` it reads is
\* the state of the first render, where no client has a name yet.
processMessage(state, data) ==
  CASE data.type = "client_connect" ->
         appReducer(state, Dispatch("CLIENT_CONNECT", data.id, data.name))
    [] data.type = "client_disconnect" ->
         appReducer(state, Dispatch("CLIENT_DISCONNECT", data.id, ""))
    [] data.type = "update_tab_name" ->
         appReducer(state, Dispatch("UPDATE_TAB_NAME", data.id, data.name))
    [] data.type = "update_status" ->
         appReducer(state, Dispatch("UPDATE_STATUS", data.id,
                                    [field |-> data.field, value |-> data.value]))
    [] data.type = "status_update_json" ->
         LET clientName == Get(KeysOf(data.status), "clientName")
             changes == KeysOf(data.changes)
             fields == SelectSeq(KeyOrder, LAMBDA k : k \in DOMAIN changes)
             named == IF Truthy(clientName)
                      THEN appReducer(state,
                             Dispatch("UPDATE_TAB_NAME", data.id,
                                      NameText(clientName)))
                      ELSE state
         IN dispatchAll(named,
              [i \in DOMAIN fields |->
                 Dispatch("UPDATE_STATUS", data.id,
                          [field |-> fields[i], value |-> changes[fields[i]]])])
    [] data.type = "log" ->
         appReducer(state, Dispatch("ADD_CLIENT_LOG", data.id, data.message))
    [] data.type = "master_log" ->
         appReducer(state, Dispatch("ADD_MASTER_LOG", "", data.message))
    [] data.type = "clear_master_log" ->
         appReducer(state, Dispatch("CLEAR_MASTER_LOG", "", ""))
    [] OTHER -> state

RECURSIVE onmessage(_, _)
onmessage(state, messages) ==
  IF messages = <<>> THEN state
  ELSE onmessage(processMessage(state, Head(messages)), Tail(messages))

\* lines 295-358: the page after the handler `op` has run on the server:
\* onopen when its socket has connected, onmessage for what the server sent
\* to it, onclose when its socket has closed.  The page keeps its state
\* over a reconnect: connectWebSocket dispatches nothing but SET_WS_STATUS.
render(state, s, op) ==
  LET mine == op.id = Browser
      opened == IF op.op = "wsConnect" /\ mine
                THEN appReducer(state, Dispatch("SET_WS_STATUS", "", "connected"))
                ELSE state
      got == IF Browser \in DOMAIN s.wsClients
             THEN s.wsClients[Browser].got ELSE <<>>
      shown == onmessage(opened, got)
  IN IF op.op = "wsDrop" /\ mine /\ s.wsClients[Browser].readyState = "CLOSED"
     THEN appReducer(shown, Dispatch("SET_WS_STATUS", "", "disconnected"))
     ELSE shown

(***************************************************************************)
(* Actions: one per callback the event loop may run.                       *)
(***************************************************************************)
Op(op, id, sock, lines) == [op |-> op, id |-> id, sock |-> sock, lines |-> lines]

Install(s, op) ==
  /\ tcpClients' = s.tcpClients
  /\ clientLogs' = s.clientLogs
  /\ clientNames' = s.clientNames
  /\ clientStatus' = s.clientStatus
  /\ clientLastHeartbeat' = s.clientLastHeartbeat
  /\ masterLog' = s.masterLog
  /\ pendingHandshakes' = s.pendingHandshakes
  /\ clientStateCache' = s.clientStateCache
  /\ clientUsernameStatus' = s.clientUsernameStatus
  /\ sockets' = s.sockets
  /\ crashed' = s.crashed
  /\ discCount' = s.discCount
  /\ statusSeen' = s.statusSeen
  /\ wsClients' = s.wsClients
  /\ last' = [op |-> op.op, id |-> op.id, sock |-> op.sock, lines |-> op.lines,
              out |-> s.out, wr |-> s.wr]
  /\ frontEnd' = render(frontEnd, s, op)
  /\ UNCHANGED cap

Socks == 1..Len(sockets)
Live(sock) == sockets[sock].state \in {"open", "destroyed"}

\* A remote address:port is accepted again only after the socket that had it
\* is closed.
Accept(id) ==
  /\ ~crashed
  /\ Len(sockets) < MaxConns
  /\ \A k \in Socks : sockets[k].id = id => ~Live(k)
  /\ Install(onConnection(Cur, Len(sockets) + 1, id),
             Op("accept", id, Len(sockets) + 1, <<>>))

Data(sock, lines) ==
  /\ ~crashed
  /\ sockets[sock].state = "open"
  /\ Install(onData([Cur EXCEPT !.sockets[sock].responded =
                                 @ \/ \E i \in DOMAIN lines : lines[i].kind = "hs"],
                    sock, sockets[sock].id, lines),
             Op("data", sockets[sock].id, sock, lines))

\* 'close': the peer went away, or the server destroyed the socket
Close(sock) ==
  /\ ~crashed
  /\ Live(sock)
  /\ Install(onClose(Cur, sock, sockets[sock].id),
             Op("close", sockets[sock].id, sock, <<>>))

Error(sock) ==
  /\ ~crashed
  /\ sockets[sock].state = "open"
  /\ Install(onError(Cur, sock, sockets[sock].id),
             Op("error", sockets[sock].id, sock, <<>>))

HandshakeTimer(sock) ==
  /\ ~crashed
  /\ sockets[sock].timer
  /\ 0 >= sockets[sock].due
  /\ Install(handshakeTimeout([Cur EXCEPT !.sockets[sock].timer = FALSE],
                              sock, sockets[sock].id),
             Op("handshakeTimeout", sockets[sock].id, sock, <<>>))

UsernameTick(id) ==
  /\ ~crashed
  /\ id \in DOMAIN clientUsernameStatus
  /\ clientUsernameStatus[id].checker
  /\ Install(usernameCheckerTick(Cur, id), Op("usernameTick", id, 0, <<>>))

\* A time one period further in the past; a time older than every timeout
\* stays where it is.
Oldest == 0 - (HEARTBEAT_TIMEOUT + SWEEP_PERIOD)
Back(time) == IF time - SWEEP_PERIOD < Oldest THEN Oldest ELSE time - SWEEP_PERIOD

Elapse(s) ==
  [s EXCEPT !.pendingHandshakes =
              [id \in DOMAIN @ |-> [@[id] EXCEPT !.timestamp = Back(@)]],
            !.clientLastHeartbeat = [id \in DOMAIN @ |-> Back(@[id])],
            !.sockets = [k \in DOMAIN @ |->
                           IF @[k].timer THEN [@[k] EXCEPT !.due = Back(@)]
                           ELSE @[k]]]

\* One sweep period passes and the two intervals of lines 773-798 run, the
\* heartbeat monitor first (it was set first).  Every callback due before
\* that has run: the handshake timers that are due and the 'close' of every
\* destroyed socket.
Tick ==
  /\ ~crashed
  /\ \A k \in Socks : /\ sockets[k].state # "destroyed"
                      /\ ~(sockets[k].timer /\ 0 >= sockets[k].due)
  /\ Install(handshakeSweep(heartbeatSweep(Elapse(Cur))),
             Op("sweep", "", 0, <<>>))

InitWith(capacity) ==
  /\ tcpClients = NoEntries
  /\ clientLogs = NoEntries
  /\ clientNames = NoEntries
  /\ clientStatus = NoEntries
  /\ clientLastHeartbeat = NoEntries
  /\ masterLog = <<>>
  /\ pendingHandshakes = NoEntries
  /\ clientStateCache = NoEntries
  /\ clientUsernameStatus = NoEntries
  /\ sockets = <<>>
  /\ crashed = FALSE
  /\ cap = capacity
  /\ discCount = [id \in TwoClientIds |-> 0]
  /\ statusSeen = NoEntries
  /\ wsClients = NoEntries
  /\ last = [op |-> "init", id |-> "", sock |-> 0, lines |-> <<>>,
             out |-> <<>>, wr |-> <<>>]
  /\ frontEnd = initialState

Init == InitWith(LogCap)

Next ==
  \/ \E id \in ClientIds : Accept(id)
  \/ \E sock \in Socks : \E lines \in LifecycleReads(sock) : Data(sock, lines)
  \/ \E sock \in Socks : Close(sock)
  \/ \E sock \in Socks : Error(sock)
  \/ \E sock \in Socks : HandshakeTimer(sock)
  \/ \E id \in ClientIds : UsernameTick(id)
  \/ Tick

Spec == Init /\ [][Next]_vars

(***************************************************************************)
(* Status traffic: an authenticated client that sends status updates of    *)
(* many shapes, one or two to a read.                                      *)
(***************************************************************************)
StatusInputs ==
  { Undef, Null, Obj(NoKeys),
    StatusOf(TRUE, ""), StatusOf(FALSE, ""), StatusOf(TRUE, "farm"),
    Obj([loaded |-> Bool(TRUE)]),
    Obj([loaded |-> Str("true")]),
    Obj([loaded |-> Bool(TRUE), extra |-> Obj([hp |-> Str("1")])]),
    Obj([loaded |-> Bool(TRUE), extra |-> Obj([hp |-> Str("2")])]),
    Obj([loaded |-> Bool(TRUE), extra |-> Null]) }

StatusReads(sock) ==
  { <<GoodResponse(sock)>> }
    \cup { <<StatusUpdate("json-status", status)>> : status \in StatusInputs }
    \cup { <<StatusUpdate("json-status", status),
             StatusUpdate("json-status", status)>> : status \in StatusInputs }

NextStatus ==
  \/ \E id \in ClientIds : Accept(id)
  \/ \E sock \in Socks : \E lines \in StatusReads(sock) : Data(sock, lines)
  \/ \E sock \in Socks : Close(sock)

SpecStatus == Init /\ [][NextStatus]_vars

(***************************************************************************)
(* Log traffic at the capacity of the source: after the handshake every    *)
(* read carries a log line and a handshake response, so each step appends  *)
(* one entry to the client's ring and one to the master log.               *)
(***************************************************************************)
LogLine(text) == JsonLine("json-log", Msg("log", Undef, Undef, Undef, Str(text)))

LogRead(sock) ==
  LET id == sockets[sock].id
      log == IF id \in DOMAIN clientLogs THEN clientLogs[id] ELSE <<>>
      text == IF log # <<>> /\ log[Len(log)] = Entry("", <<"a">>) THEN "b" ELSE "a"
  IN IF isClientAuthenticated(Cur, id)
     THEN <<LogLine(text), GoodResponse(sock)>>
     ELSE <<GoodResponse(sock)>>

NextLog ==
  \/ \E id \in ClientIds : Accept(id)
  \/ \E sock \in Socks : Data(sock, LogRead(sock))

SpecLog == InitWith(MAX_LOGS) /\ [][NextLog]_vars

(***************************************************************************)
(* Properties.                                                             *)
(***************************************************************************)
AuthenticatedIn(s, id) ==
  id \in DOMAIN s.pendingHandshakes /\ s.pendingHandshakes[id].authenticated

Newest(seq, n) ==
  IF Len(seq) > n THEN SubSeq(seq, Len(seq) - n + 1, Len(seq)) ELSE seq

LogOf(s, id) == IF id \in DOMAIN s.clientLogs THEN s.clientLogs[id] ELSE <<>>

Rejected(line) == Entry("Unauthenticated message rejected", <<line.raw>>)

\* between s1 and s2 nothing happened but the rejection of the line
RejectedOnly(s1, s2, id, line) ==
  /\ s2.clientStateCache = s1.clientStateCache
  /\ s2.clientStatus = s1.clientStatus
  /\ s2.clientNames = s1.clientNames
  /\ s2.clientLastHeartbeat = s1.clientLastHeartbeat
  /\ s2.clientUsernameStatus = s1.clientUsernameStatus
  /\ s2.pendingHandshakes = s1.pendingHandshakes
  /\ s2.tcpClients = s1.tcpClients
  /\ s2.masterLog = s1.masterLog
  /\ s2.sockets = s1.sockets
  /\ s2.wr = s1.wr
  /\ s2.crashed = s1.crashed
  /\ s2.out = Append(s1.out, [type |-> "log", id |-> id,
                              message |-> Rejected(line)])
  /\ s2.clientLogs =
       Put(s1.clientLogs, id, Newest(Append(LogOf(s1, id), Rejected(line)), cap))

\* C1: a line without the handshake-response prefix that arrives on a
\* connection that is not authenticated, alone or behind another line of the
\* same read, is not processed as a message: the status cache, the status,
\* the display name and the last heartbeat stay as they are, and the only
\* effect is the 'rejected' entry in the client's log.
C1_PreAuthIsolation ==
  \A sock \in Socks :
    (~crashed /\ sockets[sock].state = "open") =>
      \A line \in LifecycleLines(sock) :
        \A before \in {<<>>} \cup {<<l>> : l \in LifecycleLines(sock)} :
          LET id == sockets[sock].id
              s1 == onData(Cur, sock, id, before)
          IN (line.kind # "hs" /\ ~s1.crashed /\ ~AuthenticatedIn(s1, id))
               => RejectedOnly(s1, onLine(s1, sock, id, line), id, line)

C1_Witness ==
  /\ last.op = "data"
  /\ last.lines = <<StatusUpdate("json-status-loaded", StatusOf(TRUE, ""))>>
  /\ last.out = <<[type |-> "log", id |-> last.id,
                   message |-> Rejected(last.lines[1])]>>
  /\ last.id \notin DOMAIN clientStateCache

\* C2: a connection that never sends a handshake response has, when its
\* socket is closed, exactly one client_disconnect published for its id.
C2_OneDisconnectOnTimeout ==
  [][(last'.op = "close" /\ ~sockets[last'.sock].responded)
       => discCount'[last'.id] = 1]_vars

\* C3: a client evicted by the heartbeat sweep has, when its socket is
\* closed, exactly one client_disconnect published for its id.
C3_OneDisconnectOnHeartbeatEviction ==
  [][(last'.op = "close" /\ sockets[last'.sock].by = "heartbeatSweep")
       => discCount'[last'.id] = 1]_vars

\* C4: on an authenticated connection a line with the handshake-response
\* prefix does not run the verification again: the socket stays open, the
\* record stays, and the handshake and username-poll state do not change.
C4_ResponseAfterAuthIsOrdinary ==
  \A sock \in Socks :
    LET id == sockets[sock].id
    IN (~crashed /\ sockets[sock].state = "open" /\ AuthenticatedIn(Cur, id)) =>
         \A line \in {GoodResponse(sock), BadResponse(sock), ShortResponse(sock)} :
           LET s2 == onLine(Cur, sock, id, line)
           IN /\ ~s2.crashed
              /\ s2.sockets[sock].state = "open"
              /\ id \in DOMAIN s2.tcpClients
              /\ s2.pendingHandshakes = pendingHandshakes
              /\ s2.clientUsernameStatus = clientUsernameStatus

\* C5: a handshake record that is authenticated stays authenticated for as
\* long as it is in the store.
C5_AuthenticatedMonotonic ==
  [][\A id \in DOMAIN pendingHandshakes \cap DOMAIN pendingHandshakes' :
       pendingHandshakes[id].authenticated
         => pendingHandshakes'[id].authenticated]_vars

\* a handshake response verified on a connection that was authenticated
\* already
C5_Witness ==
  /\ last.op = "data"
  /\ last.lines = <<GoodResponse(last.sock)>>
  /\ AuthenticatedIn(Cur, last.id)
  /\ \A i \in DOMAIN last.out : last.out[i].type # "log"
  /\ \E i \in DOMAIN last.out :
       /\ last.out[i].type = "master_log"
       /\ last.out[i].message.tag = "Handshake successful for"

HasId(event) == event.type \notin {"master_log", "clear_master_log"}

\* C6: after client_disconnect is published for an id, no event that
\* carries the id is published until a connection with the id is accepted.
C6_NothingAfterDisconnect ==
  [][last'.op # "accept" =>
       \A i \in DOMAIN last'.out :
         LET event == last'.out[i]
         IN HasId(event) =>
              /\ discCount[event.id] = 0
              /\ \A j \in 1..(i - 1) : last'.out[j] # Disconnect(event.id)]_vars

MessagesOf(events) == [i \in DOMAIN events |-> events[i].message]

\* the entries a handler published for the client's log and the master log
ClientAdded(out, id) ==
  MessagesOf(SelectSeq(out, LAMBDA e : e.type = "log" /\ e.id = id))

MasterAdded(out) == MessagesOf(SelectSeq(out, LAMBDA e : e.type = "master_log"))

LogsBounded ==
  /\ Len(masterLog) <= MAX_LOGS
  /\ \A id \in DOMAIN clientLogs : Len(clientLogs[id]) <= MAX_LOGS

\* after a step each ring is the newest MAX_LOGS entries of what it held
\* followed by what the step appended
LogsKeepNewest ==
  /\ masterLog' = Newest(masterLog \o MasterAdded(last'.out), MAX_LOGS)
  /\ \A id \in DOMAIN clientLogs' :
       clientLogs'[id] =
         Newest(LogOf(Cur, id) \o ClientAdded(last'.out, id), MAX_LOGS)

\* C7: every client's log ring and the master log hold at most MAX_LOGS
\* entries; an append at capacity removes the oldest entry and keeps the
\* appended entry as the last one.
C7_LogBounding == [](LogsBounded) /\ [][LogsKeepNewest]_vars

\* both rings are full, have lost the entries of the connect, and end with
\* the entries appended last
C7_Witness ==
  /\ last.op = "data"
  /\ Len(masterLog) = MAX_LOGS
  /\ masterLog[1].tag # "Client connected - initiating handshake"
  /\ masterLog[MAX_LOGS] = last.out[Len(last.out)].message
  /\ Len(LogOf(Cur, last.id)) = MAX_LOGS
  /\ clientLogs[last.id][1].tag # "connected - awaiting handshake"
  /\ clientLogs[last.id][MAX_LOGS] = last.out[1].message

JsonCount(out) == Len(SelectSeq(out, LAMBDA e : e.type = "status_update_json"))

\* a status_update with the status object the connection sent last
SameAgain(sock) ==
  LET id == sockets[sock].id
  IN onLine(Cur, sock, id, StatusUpdate("json-status", statusSeen[id].status))

Repeatable(sock) ==
  /\ ~crashed
  /\ sockets[sock].state = "open"
  /\ AuthenticatedIn(Cur, sockets[sock].id)
  /\ sockets[sock].id \in DOMAIN statusSeen
  /\ statusSeen[sockets[sock].id].status.t = "object"

\* C8 as amended: when an authenticated client sends the status_update
\* object it sent last once more, the second message publishes no
\* status_update_json; the pair publishes one exactly when the first message
\* changed the cache, and none otherwise.
C8_SecondPublishesNone ==
  \A sock \in Socks : Repeatable(sock) => JsonCount(SameAgain(sock).out) = 0

\* C8: the same status_update object sent twice in a row publishes exactly
\* one status_update_json for the pair.
C8_ExactlyOneForThePair ==
  \A sock \in Socks :
    Repeatable(sock) =>
      (IF statusSeen[sockets[sock].id].published THEN 1 ELSE 0)
        + JsonCount(SameAgain(sock).out) = 1

\* one read with the same status object twice, published once
C8_Witness ==
  /\ last.op = "data"
  /\ Len(last.lines) = 2
  /\ last.lines[1] = last.lines[2]
  /\ last.lines[1].kind = "json"
  /\ last.lines[1].json.type = "status_update"
  /\ last.lines[1].json.status.t = "object"
  /\ JsonCount(last.out) = 1
  /\ last.out[1].type = "status_update_json"

CacheOf(s, id) ==
  IF id \in DOMAIN s.clientStateCache THEN s.clientStateCache[id] ELSE NoKeys

Authenticated(sock) ==
  /\ ~crashed
  /\ sockets[sock].state = "open"
  /\ AuthenticatedIn(Cur, sockets[sock].id)

\* C9: a status_update whose status object equals the cached one on every
\* key of their union publishes nothing and leaves the cache and the status
\* as they are.
C9_NoOpPublishesNothing ==
  \A sock \in Socks :
    Authenticated(sock) =>
      \A status \in StatusInputs :
        LET id == sockets[sock].id
            s2 == onLine(Cur, sock, id, StatusUpdate("json-status", status))
        IN (status.t = "object" /\ status.f = CacheOf(Cur, id)) =>
             /\ s2.out = <<>>
             /\ s2.clientStateCache = clientStateCache
             /\ s2.clientStatus = clientStatus

\* C10: the changes of a published status_update_json are the keys of the
\* union of the cached and the incoming object whose values differ, each
\* with the incoming value.
C10_ChangesAreTheDifference ==
  \A sock \in Socks :
    Authenticated(sock) =>
      \A status \in StatusInputs :
        LET id == sockets[sock].id
            old == CacheOf(Cur, id)
            s2 == onLine(Cur, sock, id, StatusUpdate("json-status", status))
            diff == {k \in DOMAIN old \cup DOMAIN KeysOf(status) :
                       Get(old, k) # Get(KeysOf(status), k)}
        IN status.t = "object" =>
             \A i \in DOMAIN s2.out :
               s2.out[i].type = "status_update_json" =>
                 /\ DOMAIN s2.out[i].changes.f = diff
                 /\ \A k \in diff : s2.out[i].changes.f[k] = status.f[k]

(***************************************************************************)
(* Legacy traffic: an authenticated client that mixes native status        *)
(* updates with the legacy status directives.                              *)
(***************************************************************************)
\* the legacy status directives, each with the field it names and the value
\* it carries
LegacyDirectives ==
  { [line |-> TextLine("$IsLoaded:true", <<"$IsLoaded", "true">>, "true"),
     field |-> "loaded", value |-> Bool(TRUE)],
    [line |-> TextLine("$IsLoaded:False", <<"$IsLoaded", "False">>, "False"),
     field |-> "loaded", value |-> Bool(FALSE)],
    [line |-> TextLine("$IsLogged:TRUE", <<"$IsLogged", "TRUE">>, "TRUE"),
     field |-> "logged", value |-> Bool(TRUE)],
    [line |-> TextLine("$IsScriptRunning:yes", <<"$IsScriptRunning", "yes">>, "yes"),
     field |-> "scriptRunning", value |-> Bool(FALSE)],
    [line |-> TextLine("$LoadedScript:farm", <<"$LoadedScript", "farm">>, "farm"),
     field |-> "loadedScript", value |-> Str("farm")],
    [line |-> TextLine("$LoadedScript:a:b", <<"$LoadedScript", "a", "b">>, "a:b"),
     field |-> "loadedScript", value |-> Str("a:b")] }

LegacyReads(sock) ==
  { <<GoodResponse(sock)>>,
    <<StatusUpdate("json-status", StatusOf(TRUE, "farm"))>>,
    <<StatusUpdate("json-status",
                   Obj([loaded |-> Bool(TRUE), extra |-> Obj([hp |-> Str("1")])]))>> }
    \cup { <<d.line>> : d \in LegacyDirectives }

NextLegacy ==
  \/ \E id \in ClientIds : Accept(id)
  \/ \E sock \in Socks : \E lines \in LegacyReads(sock) : Data(sock, lines)
  \/ \E sock \in Socks : Close(sock)

SpecLegacy == Init /\ [][NextLegacy]_vars

\* handling the directive and handling the native status_update that
\* replaces the directive's field in the status `base` end alike, and the
\* full state sent natively after the directive publishes no status change
SameAsNative(sock, d, base) ==
  LET id == sockets[sock].id
      legacy == onLine(Cur, sock, id, d.line)
      native == onLine(Cur, sock, id,
                       StatusUpdate("json-status", Obj(Put(base, d.field, d.value))))
      again == onLine(legacy, sock, id,
                      StatusUpdate("json-status", Obj(CacheOf(legacy, id))))
  IN /\ legacy.clientStateCache = native.clientStateCache
     /\ legacy.clientStatus = native.clientStatus
     /\ legacy.out = native.out
     /\ JsonCount(again.out) = JsonCount(legacy.out)

\* C11 as amended: a legacy status directive is handled like the native
\* status_update whose status is the cached status, or the four default
\* fields when the record has no cached status yet, with the directive's
\* field replaced: same cache, same status, same events; and the same full
\* state sent natively right after publishes no further status change.
C11_LegacyEqualsNativeOverDefaults ==
  \A sock \in Socks :
    Authenticated(sock) =>
      \A d \in LegacyDirectives :
        SameAsNative(sock, d,
                     IF sockets[sock].id \in DOMAIN clientStateCache
                     THEN clientStateCache[sockets[sock].id]
                     ELSE DefaultStatus)

\* C11: a legacy status directive is handled like the native status_update
\* whose status is the cached status with the directive's field replaced.
C11_LegacyEqualsNativeOverCache ==
  \A sock \in Socks :
    Authenticated(sock) =>
      \A d \in LegacyDirectives :
        SameAsNative(sock, d, CacheOf(Cur, sockets[sock].id))

\* a directive that changed one field of a status reported before
C11_Witness ==
  /\ last.op = "data"
  /\ last.lines = <<TextLine("$IsLogged:TRUE", <<"$IsLogged", "TRUE">>, "TRUE")>>
  /\ JsonCount(last.out) = 1
  /\ \E i \in DOMAIN last.out :
       /\ last.out[i].type = "status_update_json"
       /\ DOMAIN last.out[i].changes.f = {"logged"}
  /\ clientStateCache[last.id] =
       [loaded |-> Bool(TRUE), extra |-> Obj([hp |-> Str("1")]),
        logged |-> Bool(TRUE)]

OrdinaryLines(sock) == {line \in LifecycleLines(sock) : line.kind # "hs"}

\* the line was handled as a message, not rejected
Processed(s1, s2, id, line) ==
  /\ \A i \in DOMAIN s2.out :
       s2.out[i].type = "log" => s2.out[i].message # Rejected(line)
  /\ AuthenticatedIn(s2, id)
  /\ line.raw = "json-status-loaded" =>
       s2.clientStateCache[id] = StatusOf(TRUE, "").f
  /\ line.raw = "json-heartbeat" => s2.clientLastHeartbeat[id] = s2.now
  /\ line.raw = "json-username" => s2.clientNames[id] = "Alice"
  /\ line.raw = "hello" =>
       s2.out = Append(s1.out, [type |-> "log", id |-> id,
                                message |-> Entry("", <<"hello">>)])

\* the connection holds an unanswered challenge that has not expired
AwaitingResponse(sock) ==
  LET id == sockets[sock].id
  IN /\ ~crashed
     /\ sockets[sock].state = "open"
     /\ id \in DOMAIN pendingHandshakes
     /\ ~pendingHandshakes[id].authenticated
     /\ pendingHandshakes[id].challenge = sock
     /\ 0 - pendingHandshakes[id].timestamp <= HANDSHAKE_TIMEOUT

CleanedUp(s, id) ==
  /\ id \notin DOMAIN s.tcpClients
  /\ id \notin DOMAIN s.pendingHandshakes
  /\ id \notin DOMAIN s.clientStateCache
  /\ id \notin DOMAIN s.clientStatus
  /\ id \notin DOMAIN s.clientNames
  /\ id \notin DOMAIN s.clientLastHeartbeat
  /\ id \notin DOMAIN s.clientUsernameStatus

Published(s, event) == \E i \in DOMAIN s.out : s.out[i] = event

\* C13: a handshake response that fails verification, or arrives after the
\* deadline, or arrives when the client has no pending handshake, is
\* rejected: the socket is destroyed and the connection is not authenticated
\* by it; where there was a handshake record, cleanup has run for the id and
\* client_disconnect is published (without a record both are left to the
\* close of the destroyed socket).
C13_BadResponseIsRejected ==
  \A sock \in Socks :
    (~crashed /\ sockets[sock].state = "open") =>
      \A line \in {GoodResponse(sock), BadResponse(sock), ShortResponse(sock)} :
        LET id == sockets[sock].id
            pending == id \in DOMAIN pendingHandshakes
            late == pending /\ 0 - pendingHandshakes[id].timestamp > HANDSHAKE_TIMEOUT
            s2 == onLine(Cur, sock, id, line)
        IN (~pending \/ late \/ line # GoodResponse(sock)) =>
             /\ ~s2.crashed
             /\ s2.sockets[sock].state = "destroyed"
             /\ ~AuthenticatedIn(s2, id)
             /\ pending => (CleanedUp(s2, id) /\ Published(s2, Disconnect(id)))

\* C14: a line other than a handshake response on a connection that is not
\* authenticated terminates the connection at once: the socket is destroyed,
\* the record is removed, and the rejection is in the client's log and in
\* the master log.
C14_PreAuthLineTerminates ==
  \A sock \in Socks :
    LET id == sockets[sock].id
    IN (~crashed /\ sockets[sock].state = "open" /\ ~AuthenticatedIn(Cur, id)) =>
         \A line \in OrdinaryLines(sock) :
           LET s2 == onLine(Cur, sock, id, line)
           IN /\ s2.sockets[sock].state = "destroyed"
              /\ id \notin DOMAIN s2.tcpClients
              /\ id \notin DOMAIN s2.pendingHandshakes
              /\ Published(s2, [type |-> "log", id |-> id,
                                message |-> Rejected(line)])
              /\ \E i \in DOMAIN s2.out : s2.out[i].type = "master_log"

\* C15: a handshake response whose decoded length is not the length of the
\* expected response fails verification without an error: the connection is
\* rejected and the server does not crash.
C15_LengthMismatchIsRejected ==
  \A sock \in Socks :
    LET id == sockets[sock].id
    IN (~crashed /\ sockets[sock].state = "open"
          /\ id \in DOMAIN pendingHandshakes) =>
         LET s2 == onLine(Cur, sock, id, ShortResponse(sock))
         IN /\ ~s2.crashed
            /\ s2.sockets[sock].state = "destroyed"
            /\ ~AuthenticatedIn(s2, id)

\* the state with every last heartbeat as old as can be
LongSilent ==
  [Cur EXCEPT !.clientLastHeartbeat = [id \in DOMAIN @ |-> Oldest]]

Unauthenticated(s, id) ==
  id \in DOMAIN s.pendingHandshakes /\ ~s.pendingHandshakes[id].authenticated

\* the heartbeat sweep leaves the records of the id, its socket and the
\* observers alone
SparedBySweep(s, id) ==
  LET s2 == heartbeatSweep(s)
  IN /\ Unauthenticated(s2, id)
     /\ s2.pendingHandshakes[id] = s.pendingHandshakes[id]
     /\ id \in DOMAIN s.tcpClients =>
          /\ id \in DOMAIN s2.tcpClients
          /\ s2.sockets[s.tcpClients[id]] = s.sockets[s.tcpClients[id]]
     /\ \A i \in DOMAIN s2.out : s2.out[i] # Disconnect(id)

HeartbeatSweepSparesUnauthenticated ==
  \A id \in DOMAIN pendingHandshakes :
    Unauthenticated(Cur, id) => SparedBySweep(LongSilent, id)

\* a step that removes an unauthenticated record is the handshake timer, a
\* read with a handshake response, a socket close or the handshake sweep
UnauthenticatedRemovedByDeadline ==
  \A id \in DOMAIN pendingHandshakes :
    (Unauthenticated(Cur, id) /\ id \notin DOMAIN pendingHandshakes') =>
      \/ last'.op \in {"handshakeTimeout", "close"}
      \/ /\ last'.op = "data"
         /\ \E i \in DOMAIN last'.lines : last'.lines[i].kind = "hs"
      \/ /\ last'.op = "sweep"
         /\ Unauthenticated(heartbeatSweep(Elapse(Cur)), id)

\* C16: the heartbeat sweep never evicts a record that is not authenticated,
\* however old its last heartbeat is; such a record is removed only by the
\* handshake deadline, a rejected handshake response or the close of the
\* socket.
C16_HeartbeatSweepExemptsUnauthenticated ==
  [](HeartbeatSweepSparesUnauthenticated) /\ [][UnauthenticatedRemovedByDeadline]_vars

\* the sweeps have run over a record that awaits its handshake
C16_Witness ==
  /\ last.op = "sweep"
  /\ \E id \in DOMAIN pendingHandshakes :
       /\ Unauthenticated(Cur, id)
       /\ id \in DOMAIN tcpClients
       /\ clientLastHeartbeat[id] < 0

(***************************************************************************)
(* Name traffic: an authenticated client that reports names, as the        *)
(* clientName of a message and as the username of a username_response.     *)
(***************************************************************************)
Names == {"Alice", "Bob"}

ClientNameFields == {Undef} \cup {Str(name) : name \in Names}

UsernameResponse(clientName, username) ==
  JsonLine("json-username",
           Msg("username_response", clientName, Undef, username, Undef))

NameReads(sock) ==
  { <<GoodResponse(sock)>>,
    <<UsernameResponse(Undef, Str(""))>>,
    <<JsonLine("json-heartbeat",
               Msg("heartbeat", Str("Bob"), Undef, Undef, Undef))>>,
    <<TextLine("$ClientName:Alice", <<"$ClientName", "Alice">>, "Alice")>> }
    \cup { <<UsernameResponse(clientName, Str(name))>> :
             clientName \in ClientNameFields, name \in Names }

NextNames ==
  \/ \E id \in ClientIds : Accept(id)
  \/ \E sock \in Socks : \E lines \in NameReads(sock) : Data(sock, lines)
  \/ \E id \in ClientIds : UsernameTick(id)
  \/ \E sock \in Socks : Close(sock)

SpecNames == Init /\ [][NextNames]_vars

TabName(id, name) == [type |-> "update_tab_name", id |-> id, name |-> name]

TabNames(out) == SelectSeq(out, LAMBDA e : e.type = "update_tab_name")

\* C17 as amended: a username_response with a non-empty username sets the
\* display name to the username and hasUsername to true, and publishes
\* update_tab_name for the username exactly when the username differs from
\* the display name held when the username is handled: the clientName of
\* the same message when it carries one (announced by an update_tab_name of
\* its own when it differs from the name before), and otherwise the display
\* name held before the response.
C17_UsernameSetsName ==
  \A sock \in Socks :
    Authenticated(sock) =>
      \A clientName \in ClientNameFields, name \in Names :
        LET id == sockets[sock].id
            before == NameOf(Cur, id)
            held == IF Truthy(clientName) THEN clientName.s ELSE before
            s2 == onLine(Cur, sock, id, UsernameResponse(clientName, Str(name)))
        IN /\ s2.clientNames[id] = name
           /\ s2.clientUsernameStatus[id].hasUsername
           /\ TabNames(s2.out) =
                (IF held # before THEN <<TabName(id, held)>> ELSE <<>>)
                  \o (IF name # held THEN <<TabName(id, name)>> ELSE <<>>)

\* C17: a username_response with a non-empty username sets the display name
\* and hasUsername, and publishes update_tab_name if and only if the
\* username differs from the display name held just before the response.
C17_TabNameIffDiffers ==
  \A sock \in Socks :
    Authenticated(sock) =>
      \A clientName \in ClientNameFields, name \in Names :
        LET id == sockets[sock].id
            s2 == onLine(Cur, sock, id, UsernameResponse(clientName, Str(name)))
        IN /\ s2.clientNames[id] = name
           /\ s2.clientUsernameStatus[id].hasUsername
           /\ (TabNames(s2.out) # <<>>) <=> (name # NameOf(Cur, id))

\* a username that replaced the name the client had
C17_Witness ==
  /\ last.op = "data"
  /\ last.lines = <<UsernameResponse(Undef, Str("Alice"))>>
  /\ TabNames(last.out) = <<TabName(last.id, "Alice")>>
  /\ clientNames[last.id] = "Alice"
  /\ clientUsernameStatus[last.id].hasUsername

(***************************************************************************)
(* Poller traffic: a client whose name comes from its username_response    *)
(* only, and the ticks of its username poller.                             *)
(***************************************************************************)
PollerReads(sock) ==
  { <<GoodResponse(sock)>>,
    <<UsernameResponse(Undef, Str("Alice"))>>,
    <<UsernameResponse(Undef, Str(""))>>,
    <<JsonLine("json-heartbeat", Msg("heartbeat", Undef, Undef, Undef, Undef))>>,
    <<StatusUpdate("json-status-loaded", StatusOf(TRUE, ""))>> }

NextPoller ==
  \/ \E id \in ClientIds : Accept(id)
  \/ \E sock \in Socks : \E lines \in PollerReads(sock) : Data(sock, lines)
  \/ \E id \in ClientIds : UsernameTick(id)
  \/ \E sock \in Socks : Close(sock)

SpecPoller == Init /\ [][NextPoller]_vars

UsernameRequested(writes) ==
  \E i \in DOMAIN writes : writes[i].line = "username_request"

\* C18: once a non-empty username_response has been handled on a
\* connection, the username poller sends no further username_request on it.
C18_NoRequestAfterUsername ==
  [][(last'.op = "usernameTick" /\ NameOf(Cur, last'.id) \in Names)
       => ~UsernameRequested(last'.wr)]_vars

(***************************************************************************)
(* WebSocket server (lines 548-598): the browsers that observe the bridge. *)
(***************************************************************************)
Observers == {"o1", "o2"}

RECURSIVE Flatten(_)
Flatten(seqs) == IF seqs = <<>> THEN <<>> ELSE Head(seqs) \o Flatten(Tail(seqs))

\* a variant that replays the client's log before its status
catchUpLogsFirst(s, id) ==
  LET status == IF id \in DOMAIN s.clientStatus THEN s.clientStatus[id] ELSE NoKeys
      name == IF id \in DOMAIN s.clientNames /\ s.clientNames[id] # ""
              THEN s.clientNames[id] ELSE id
      value(field) ==
        IF field = "loadedScript"
        THEN (IF Truthy(Get(status, field)) THEN Get(status, field) ELSE Str(""))
        ELSE Bool(Truthy(Get(status, field)))
      fields == <<"loaded", "logged", "scriptRunning", "loadedScript">>
      logs == IF id \in DOMAIN s.clientLogs THEN s.clientLogs[id] ELSE <<>>
  IN <<[type |-> "client_connect", id |-> id, name |-> name]>>
       \o [i \in DOMAIN logs |-> [type |-> "log", id |-> id, message |-> logs[i]]]
       \o [i \in DOMAIN fields |->
             Json([type |-> "update_status", id |-> id, field |-> fields[i],
                   value |-> value(fields[i])])]

\* what a new browser is sent about one client (lines 557-568)
catchUp(s, id) ==
  LET status == IF id \in DOMAIN s.clientStatus THEN s.clientStatus[id] ELSE NoKeys
      name == IF id \in DOMAIN s.clientNames /\ s.clientNames[id] # ""
              THEN s.clientNames[id] ELSE id
      value(field) ==
        IF field = "loadedScript"
        THEN (IF Truthy(Get(status, field)) THEN Get(status, field) ELSE Str(""))
        ELSE Bool(Truthy(Get(status, field)))
      fields == <<"loaded", "logged", "scriptRunning", "loadedScript">>
      logs == IF id \in DOMAIN s.clientLogs THEN s.clientLogs[id] ELSE <<>>
  IN <<[type |-> "client_connect", id |-> id, name |-> name]>>
       \o [i \in DOMAIN fields |->
             Json([type |-> "update_status", id |-> id, field |-> fields[i],
                   value |-> value(fields[i])])]
       \o [i \in DOMAIN logs |-> [type |-> "log", id |-> id, message |-> logs[i]]]

\* the connection callback of the WebSocket server
onWsConnection(s, o) ==
  LET ids == KeysInOrder(s.tcpClients)
      replay == [i \in DOMAIN s.masterLog |->
                   [type |-> "master_log", message |-> s.masterLog[i]]]
                  \o Flatten([i \in DOMAIN ids |-> catchUp(s, ids[i])])
  IN [s EXCEPT !.wsClients = Put(@, o, [readyState |-> "OPEN", got |-> replay])]

ControlMessage(type, id, message) == [type |-> type, id |-> id, message |-> message]

\* ws.on('message'); a message that JSON.parse rejects has type "unparsable"
onWsMessage(s, o, data) ==
  CASE data.type = "send_to_client" ->
         IF data.id \in DOMAIN s.tcpClients
         THEN addClientLog(Write(s, s.tcpClients[data.id], data.message), data.id,
                Entry("Server ->",
                      <<IF data.id \in DOMAIN s.clientNames
                           /\ s.clientNames[data.id] # ""
                        THEN s.clientNames[data.id] ELSE data.id,
                        data.message>>))
         ELSE s
    [] data.type = "request_username" ->
         IF data.id \in DOMAIN s.tcpClients /\ isClientAuthenticated(s, data.id)
         THEN LET r == sendUsernameRequest(s, data.id)
              IN IF r.ok
                 THEN addMasterLog(r.s, "Manual username request sent to", data.id)
                 ELSE addMasterLog(r.s, "Failed to send username request to", data.id)
         ELSE s
    [] data.type = "clear_master_log" -> clearMasterLog(s)
    [] OTHER -> s

\* ws.on('close')
onWsClose(s, o) == [s EXCEPT !.wsClients = Del(@, o)]

ControlMessages ==
  { ControlMessage("send_to_client", id, "say hi") : id \in ClientIds }
    \cup { ControlMessage("request_username", id, "") : id \in ClientIds }
    \cup { ControlMessage("clear_master_log", "", ""),
           ControlMessage("unparsable", "", "") }

WsConnect(o) ==
  /\ ~crashed
  /\ o \notin DOMAIN wsClients
  /\ Install(onWsConnection(Cur, o), Op("wsConnect", o, 0, <<>>))

WsMessage(o, data) ==
  /\ ~crashed
  /\ o \in DOMAIN wsClients
  /\ wsClients[o].readyState = "OPEN"
  /\ Install(onWsMessage(Cur, o, data), Op("wsMessage", o, 0, <<>>))

\* the browser socket leaves the OPEN state: the closing handshake starts,
\* or the connection is lost
WsDrop(o, state) ==
  /\ ~crashed
  /\ o \in DOMAIN wsClients
  /\ \/ wsClients[o].readyState = "OPEN" /\ state \in {"CLOSING", "CLOSED"}
     \/ wsClients[o].readyState = "CLOSING" /\ state = "CLOSED"
  /\ Install([Cur EXCEPT !.wsClients[o].readyState = state],
             Op("wsDrop", o, 0, <<>>))

WsClose(o) ==
  /\ ~crashed
  /\ o \in DOMAIN wsClients
  /\ wsClients[o].readyState = "CLOSED"
  /\ Install(onWsClose(Cur, o), Op("wsClose", o, 0, <<>>))

ObservedReads(sock) ==
  { <<GoodResponse(sock)>>,
    <<StatusUpdate("json-status-loaded", StatusOf(TRUE, ""))>>,
    <<TextLine("hello", <<"hello">>, "")>> }

NextObservers ==
  \/ \E id \in ClientIds : Accept(id)
  \/ \E sock \in Socks : \E lines \in ObservedReads(sock) : Data(sock, lines)
  \/ \E sock \in Socks : Close(sock)
  \/ \E o \in Observers : WsConnect(o)
  \/ \E o \in Observers : \E data \in ControlMessages : WsMessage(o, data)
  \/ \E o \in Observers : \E state \in {"CLOSING", "CLOSED"} : WsDrop(o, state)
  \/ \E o \in Observers : WsClose(o)

SpecObservers == Init /\ [][NextObservers]_vars

\* C19: what a handler publishes is delivered, in order, to every observer
\* that is open and to no observer that is not; an observer that is not
\* open does not keep an event from the others.  (An observer that has just
\* subscribed holds its catch-up instead.)
C19_FanOutToOpenObservers ==
  \A o \in DOMAIN wsClients :
    /\ (wsClients[o].readyState = "OPEN"
          /\ ~(last.op = "wsConnect" /\ last.id = o))
         => wsClients[o].got = last.out
    /\ wsClients[o].readyState # "OPEN" => wsClients[o].got = <<>>

\* an event went to the open observer and not to the closed one
C19_Witness ==
  /\ last.out # <<>>
  /\ DOMAIN wsClients = Observers
  /\ wsClients["o1"].readyState = "CLOSED"
  /\ wsClients["o1"].got = <<>>
  /\ wsClients["o2"].readyState = "OPEN"
  /\ wsClients["o2"].got = last.out

(***************************************************************************)
(* Two clients whose reads carry one or two lines, among the sweeps, the   *)
(* handshake timers and the ticks of the username pollers.                 *)
(***************************************************************************)
OrderLines ==
  { StatusUpdate("json-status-loaded", StatusOf(TRUE, "")),
    TextLine("hello", <<"hello">>, "") }

\* the first client sends two lines to a read, the second one
OrderReads(sock) ==
  { <<GoodResponse(sock)>> }
    \cup (IF sockets[sock].id = "c1"
          THEN { <<first, second>> : first \in OrderLines, second \in OrderLines }
          ELSE { <<TextLine("hello", <<"hello">>, "")>> })

NextOrder ==
  \/ \E id \in TwoClientIds : Accept(id)
  \/ \E sock \in Socks : \E lines \in OrderReads(sock) : Data(sock, lines)
  \/ \E sock \in Socks : Close(sock)
  \/ \E sock \in Socks : HandshakeTimer(sock)
  \/ \E id \in TwoClientIds : UsernameTick(id)
  \/ Tick

SpecOrder == Init /\ [][NextOrder]_vars

\* the state after the first n lines of a read, each handled in the state
\* the one before it left
RECURSIVE AfterLines(_, _, _, _, _)
AfterLines(s, sock, id, lines, n) ==
  IF n = 0 THEN s
  ELSE onLine(AfterLines(s, sock, id, lines, n - 1), sock, id, lines[n])

IsPrefix(short, long) ==
  Len(short) <= Len(long) /\ SubSeq(long, 1, Len(short)) = short

\* a read takes the server through the states of its lines, one after the
\* other: what each line publishes and writes follows all that the lines
\* before it published and wrote, and the read ends in the state of its
\* last line
LinesTakeEffectInOrder(sock, lines) ==
  LET id == sockets[sock].id
      read == onData(Cur, sock, id, lines)
  IN /\ \A n \in 1..(Len(lines) - 1) :
          /\ IsPrefix(AfterLines(Cur, sock, id, lines, n).out, read.out)
          /\ IsPrefix(AfterLines(Cur, sock, id, lines, n).wr, read.wr)
     /\ read = AfterLines(Cur, sock, id, lines, Len(lines))

\* C20: of two lines of one authenticated connection, the earlier takes
\* effect, in its record updates and in its published events, before the
\* later, in every state that other clients' lines, sweeps and poller ticks
\* lead to.
C20_LinesInOrder ==
  \A sock \in Socks :
    (~crashed /\ sockets[sock].state = "open") =>
      \A lines \in OrderReads(sock) : LinesTakeEffectInOrder(sock, lines)

\* a status update and a log line in one read of the first client, with the
\* second client connected: the status events, then the log event
C20_Witness ==
  /\ last.op = "data"
  /\ last.id = "c1"
  /\ last.lines = <<StatusUpdate("json-status-loaded", StatusOf(TRUE, "")),
                    TextLine("hello", <<"hello">>, "")>>
  /\ JsonCount(last.out) = 1
  /\ last.out[Len(last.out)] =
       [type |-> "log", id |-> "c1", message |-> Entry("", <<"hello">>)]
  /\ isClientAuthenticated(Cur, "c2")
  /\ clientLastHeartbeat["c2"] < 0

(***************************************************************************)
(* Catch-up traffic: two clients whose status updates carry values of any  *)
(* JSON type, and a browser that subscribes at any moment.                 *)
(***************************************************************************)
\* the capacity the log rings run with under SpecCatchUp
CatchUpCap == 2

CatchUpReads(sock) ==
  { <<GoodResponse(sock)>>,
    <<StatusUpdate("json-status",
                   Obj([loaded |-> Str("true"), loadedScript |-> Null]))>> }

NextCatchUp ==
  \/ \E id \in TwoClientIds : Accept(id)
  \/ \E sock \in Socks : \E lines \in CatchUpReads(sock) : Data(sock, lines)
  \/ \E sock \in Socks : Close(sock)
  \/ WsConnect("o1")
  \/ WsDrop("o1", "CLOSED")
  \/ WsClose("o1")

SpecCatchUp == InitWith(CatchUpCap) /\ [][NextCatchUp]_vars

\* the orders in which the ids of a set can be taken in turn
Orders(ids) ==
  {order \in [1..Cardinality(ids) -> ids] :
     \A id \in ids : \E i \in DOMAIN order : order[i] = id}

\* an event without the display name of a client_connect
Anonymous(event) ==
  IF event.type = "client_connect" THEN [type |-> event.type, id |-> event.id]
  ELSE event

\* the value of a status field as a boolean flag or a script name
AsFlagOrName(field, value) ==
  IF field = "loadedScript"
  THEN (IF Truthy(value) THEN value ELSE Str(""))
  ELSE Bool(Truthy(value))

\* the catch-up of one client: client_connect, the four status fields, the
\* log ring
CatchUpBlock(id, asHeld) ==
  LET fields == <<"loaded", "logged", "scriptRunning", "loadedScript">>
  IN <<[type |-> "client_connect", id |-> id]>>
       \o [i \in DOMAIN fields |->
             [type |-> "update_status", id |-> id, field |-> fields[i],
              value |-> IF asHeld THEN clientStatus[id][fields[i]]
                        ELSE AsFlagOrName(fields[i], clientStatus[id][fields[i]])]]
       \o [i \in DOMAIN clientLogs[id] |->
             [type |-> "log", id |-> id, message |-> clientLogs[id][i]]]

\* the observer that subscribed last holds the master log, then the block of
\* every connected client, one whole block after the other
CaughtUp(asHeld) ==
  last.op = "wsConnect" =>
    LET got == wsClients[last.id].got
    IN \E order \in Orders(DOMAIN tcpClients) :
         [i \in DOMAIN got |-> Anonymous(got[i])] =
           [i \in DOMAIN masterLog |->
              [type |-> "master_log", message |-> masterLog[i]]]
             \o Flatten([i \in DOMAIN order |-> CatchUpBlock(order[i], asHeld)])

\* C21 as amended: an observer that subscribes is sent first every master
\* log entry in order, then for each connected client in turn one
\* client_connect, one update_status for each of loaded, logged,
\* scriptRunning and loadedScript, and every entry of the client's log ring
\* in order, with no event of another client in between; the three flags
\* are sent as booleans (the truthiness of the value the record holds) and
\* loadedScript as the value the record holds, or '' when that is falsy.
C21_CatchUpInOrder == CaughtUp(FALSE)

\* C21: as above, each update_status with the value the record holds.
C21_CatchUpWithHeldValues == CaughtUp(TRUE)

\* a subscription with two clients connected, one of them with a status
\* that is not a boolean, and two entries in every ring
C21_Witness ==
  /\ last.op = "wsConnect"
  /\ DOMAIN tcpClients = TwoClientIds
  /\ Len(masterLog) = CatchUpCap
  /\ \A id \in TwoClientIds : Len(clientLogs[id]) = CatchUpCap
  /\ clientStatus["c1"].loaded = Str("true")
  /\ clientStatus["c1"].loadedScript = Null
  /\ clientStatus["c2"].loaded = Bool(FALSE)
  /\ Len(wsClients[last.id].got) = CatchUpCap + 2 * (5 + CatchUpCap)

(***************************************************************************)
(* Message traffic: one client that sends every kind of line, one line to  *)
(* a read, while time passes.                                              *)
(***************************************************************************)
Plain(type, message) == Msg(type, Undef, Undef, Undef, message)

\* the line `null`: JSON.parse accepts it, the destructuring of line 170
\* throws before anything is done, and the catch of line 752 hands the text
\* to the legacy conversion
JsonNull == [kind |-> "null", raw |-> "null", parts |-> <<"null">>, rest |-> ""]

HeartbeatLines ==
  { JsonLine("json-heartbeat", Plain("heartbeat", Undef)),
    JsonLine("json-heartbeat-fields",
             Msg("heartbeat", Undef, StatusOf(TRUE, "farm"), Str("Alice"), Str("hi"))),
    JsonLine("json-heartbeat-named",
             Msg("heartbeat", Str("Bob"), Undef, Undef, Undef)),
    TextLine("$Heartbeat", <<"$Heartbeat">>, "") }

\* lines that are not JSON and carry none of the legacy prefixes
RawTextLines ==
  { TextLine("hello", <<"hello">>, ""),
    TextLine("a:b", <<"a", "b">>, "b"),
    TextLine("$Heartbeat:now", <<"$Heartbeat", "now">>, "now"),
    TextLine("$IsLoaded", <<"$IsLoaded">>, "") }

\* JSON lines whose type is none of the four; the number 123 has no type
UnknownTypeLines ==
  { JsonLine("json-chat", Plain("chat", Str("hi"))),
    JsonLine("json-chat-named", Msg("chat", Str("Bob"), Undef, Undef, Undef)),
    JsonLine("123", Plain("undefined", Undef)) }

MessageLines(sock) ==
  HeartbeatLines \cup RawTextLines \cup UnknownTypeLines
    \cup { GoodResponse(sock), BadResponse(sock), ShortResponse(sock),
           JsonNull,
           JsonLine("json-log", Plain("log", Str("hi"))),
           JsonLine("json-log-none", Plain("log", Undef)),
           JsonLine("json-log-blank", Plain("log", Str(""))),
           StatusUpdate("json-status-loaded", StatusOf(TRUE, "")),
           UsernameResponse(Undef, Str("")) }

\* the lines the client of SpecLines sends: one of every kind
SentLines(sock) ==
  { line \in MessageLines(sock) :
      line.raw \in {"hs-good", "hs-short", "null", "json-log-none", "json-chat",
                    "json-heartbeat", "json-heartbeat-named", "$Heartbeat",
                    "hello", "json-status-loaded", "json-username"} }

NextLines ==
  \/ \E id \in ClientIds : Accept(id)
  \/ \E sock \in Socks : \E line \in SentLines(sock) : Data(sock, <<line>>)
  \/ \E sock \in Socks : Close(sock)
  \/ \E sock \in Socks : HandshakeTimer(sock)
  \/ Tick

SpecLines == Init /\ [][NextLines]_vars

IsHeartbeat(line) ==
  \/ line.kind = "json" /\ line.json.type = "heartbeat"
  \/ line.raw = "$Heartbeat"

\* a table of the store differs, or something was published or written
SomeEffect(s1, s2) ==
  \/ s2.out # s1.out
  \/ s2.wr # s1.wr
  \/ s2.clientLogs # s1.clientLogs
  \/ s2.clientNames # s1.clientNames
  \/ s2.clientStatus # s1.clientStatus
  \/ s2.clientStateCache # s1.clientStateCache
  \/ s2.clientLastHeartbeat # s1.clientLastHeartbeat
  \/ s2.clientUsernameStatus # s1.clientUsernameStatus
  \/ s2.pendingHandshakes # s1.pendingHandshakes
  \/ s2.tcpClients # s1.tcpClients
  \/ s2.masterLog # s1.masterLog

UnknownType(type) == Entry("Unknown JSON message type", <<type>>)

\* the entry is the newest of the client's ring and was published
Logged(s2, id, entry) ==
  /\ LogOf(s2, id) # <<>>
  /\ LogOf(s2, id)[Len(LogOf(s2, id))] = entry
  /\ Published(s2, [type |-> "log", id |-> id, message |-> entry])

\* C22: no line of an authenticated client is dropped without a trace: it
\* changes the store or publishes an event (a heartbeat stamps the current
\* time on the record), and a JSON line of a type other than status_update,
\* heartbeat, username_response and log appends a log entry naming the type.
C22_NoLineDropped ==
  \A sock \in Socks :
    Authenticated(sock) =>
      \A line \in MessageLines(sock) :
        LET id == sockets[sock].id
            s2 == onLine(Cur, sock, id, line)
        IN /\ \/ SomeEffect(Cur, s2)
              \/ IsHeartbeat(line) /\ s2.clientLastHeartbeat[id] = s2.now
           /\ line \in UnknownTypeLines =>
                Logged(s2, id, UnknownType(line.json.type))

\* nothing happened between s1 and s2 but the appending and publishing of
\* one entry with the text of the line
LoggedAsRawText(s1, s2, sock, id, line) ==
  /\ s2.clientLogs =
       Put(s1.clientLogs, id,
           Newest(Append(LogOf(s1, id), Entry("", <<line.raw>>)), cap))
  /\ s2.out = Append(s1.out, [type |-> "log", id |-> id,
                              message |-> Entry("", <<line.raw>>)])
  /\ ~s2.crashed
  /\ s2.sockets[sock].state = "open"
  /\ s2.wr = s1.wr
  /\ s2.tcpClients = s1.tcpClients
  /\ s2.pendingHandshakes = s1.pendingHandshakes
  /\ s2.clientStatus = s1.clientStatus
  /\ s2.clientStateCache = s1.clientStateCache
  /\ s2.clientNames = s1.clientNames
  /\ s2.clientLastHeartbeat = s1.clientLastHeartbeat
  /\ s2.clientUsernameStatus = s1.clientUsernameStatus
  /\ s2.masterLog = s1.masterLog

\* C23: a line of an authenticated client that is not JSON and carries none
\* of the legacy prefixes (a handshake response among them) appends one
\* entry with the raw text to the client's log ring, publishes one log
\* event, and leaves the connection open and the record, its authentication
\* and its status as they are.
C23_RawTextIsLogged ==
  \A sock \in Socks :
    Authenticated(sock) =>
      \A line \in RawTextLines \cup {GoodResponse(sock), BadResponse(sock),
                                     ShortResponse(sock)} :
        LoggedAsRawText(Cur, onLine(Cur, sock, sockets[sock].id, line),
                        sock, sockets[sock].id, line)

(***************************************************************************)
(* Two clients side by side: each may answer its challenge well or badly,  *)
(* send messages, fail and close.                                          *)
(***************************************************************************)
PairReads(sock) ==
  { <<GoodResponse(sock)>>, <<BadResponse(sock)>>, <<ShortResponse(sock)>>,
    <<StatusUpdate("json-status-loaded", StatusOf(TRUE, ""))>>,
    <<TextLine("hello", <<"hello">>, "")>> }

NextPair ==
  \/ \E id \in TwoClientIds : Accept(id)
  \/ \E sock \in Socks : \E lines \in PairReads(sock) : Data(sock, lines)
  \/ \E sock \in Socks : Close(sock)
  \/ \E sock \in Socks : Error(sock)
  \/ \E id \in TwoClientIds : UsernameTick(id)

SpecPair == Init /\ [][NextPair]_vars

\* what a table holds for an id
At(table, id) == IF id \in DOMAIN table THEN <<table[id]>> ELSE <<>>

\* the server runs on, the record of the id is what it was in every table,
\* its sockets are untouched, and nothing was published or written for it
Untouched(s1, s2, id) ==
  /\ ~s2.crashed
  /\ At(s2.tcpClients, id) = At(s1.tcpClients, id)
  /\ At(s2.clientNames, id) = At(s1.clientNames, id)
  /\ At(s2.clientStatus, id) = At(s1.clientStatus, id)
  /\ At(s2.clientStateCache, id) = At(s1.clientStateCache, id)
  /\ At(s2.clientLogs, id) = At(s1.clientLogs, id)
  /\ At(s2.clientLastHeartbeat, id) = At(s1.clientLastHeartbeat, id)
  /\ At(s2.pendingHandshakes, id) = At(s1.pendingHandshakes, id)
  /\ At(s2.clientUsernameStatus, id) = At(s1.clientUsernameStatus, id)
  /\ \A k \in DOMAIN s1.sockets :
       s1.sockets[k].id = id => s2.sockets[k] = s1.sockets[k]
  /\ \A i \in DOMAIN s2.out : HasId(s2.out[i]) => s2.out[i].id # id
  /\ \A i \in DOMAIN s2.wr : s2.sockets[s2.wr[i].sock].id # id

\* C24: a read, a handshake response, a close or an error of one client
\* leaves the record of every other client as it is in every table and
\* publishes no event with another client's id.
C24_OtherClientsUntouched ==
  \A sock \in Socks :
    \A other \in DOMAIN tcpClients \ {sockets[sock].id} :
      LET id == sockets[sock].id
      IN /\ (~crashed /\ sockets[sock].state = "open") =>
              /\ \A lines \in PairReads(sock) :
                   Untouched(Cur, onData(Cur, sock, id, lines), other)
              /\ Untouched(Cur, onError(Cur, sock, id), other)
         /\ (~crashed /\ Live(sock)) =>
              Untouched(Cur, onClose(Cur, sock, id), other)

ClearEvent == [type |-> "clear_master_log"]

Cleared(out) == \E i \in DOMAIN out : out[i] = ClearEvent

\* handling clear_master_log from any open observer empties the master log
\* and sends clear_master_log to every open observer, the sender among them
ClearEmptiesAndNotifies ==
  \A o \in DOMAIN wsClients :
    (~crashed /\ wsClients[o].readyState = "OPEN") =>
      LET s2 == onWsMessage(Cur, o, ControlMessage("clear_master_log", "", ""))
      IN /\ s2.masterLog = <<>>
         /\ \A p \in DOMAIN wsClients :
              s2.wsClients[p].got =
                IF wsClients[p].readyState = "OPEN" THEN <<ClearEvent>> ELSE <<>>

\* an observer that has just subscribed was sent the master log as it is,
\* and no other master log entry
ReplayIsMasterLog ==
  last.op = "wsConnect" =>
    SelectSeq(wsClients[last.id].got, LAMBDA e : e.type = "master_log") =
      [i \in DOMAIN masterLog |-> [type |-> "master_log", message |-> masterLog[i]]]

\* a step that clears leaves the master log empty; any other step leaves
\* the newest entries of what it held followed by what the step appended
MasterLogGrowsAtTail ==
  masterLog' = IF Cleared(last'.out) THEN <<>>
               ELSE Newest(masterLog \o MasterAdded(last'.out), cap)

Gone(id) ==
  /\ id \notin DOMAIN tcpClients
  /\ id \notin DOMAIN clientLogs
  /\ id \notin DOMAIN clientNames
  /\ id \notin DOMAIN clientStatus
  /\ id \notin DOMAIN clientLastHeartbeat
  /\ id \notin DOMAIN pendingHandshakes
  /\ id \notin DOMAIN clientStateCache
  /\ id \notin DOMAIN clientUsernameStatus

\* every handler that runs cleanupClient publishes client_disconnect for
\* the id: the close handler before it, the others after it
CleanupRan(id) == \E i \in DOMAIN last.out : last.out[i] = Disconnect(id)

Accepted(id) == last.op = "accept" /\ last.id = id

\* C26: after a handler has run cleanup for an id (socket close, handshake
\* rejection, handshake timeout, either sweep) no per-client table holds the
\* id and no poller of the id is scheduled, and that stays so until a
\* connection with the id is accepted.
C26_CleanupLeavesNothing ==
  [][\A id \in ClientIds :
       /\ CleanupRan(id)' => Gone(id)'
       /\ (Gone(id) /\ ~Accepted(id)') => Gone(id)']_vars

\* the record of the connection the socket belongs to is in the store
RecordOf(sock) ==
  /\ sockets[sock].id \in DOMAIN tcpClients
  /\ tcpClients[sockets[sock].id] = sock

\* C27: every armed per-connection timer belongs to a record that is in the
\* store: the handshake timeout timer to the connection it was armed for at
\* accept, the username poll interval to a connected client; so no timer
\* callback runs for a record that has been removed.
C27_NoTimerOutlivesItsRecord ==
  /\ \A sock \in Socks : sockets[sock].timer => RecordOf(sock)
  /\ \A id \in DOMAIN clientUsernameStatus :
       clientUsernameStatus[id].checker => id \in DOMAIN tcpClients

\* the per-client tables of a state
Tables(s) ==
  <<s.tcpClients, s.clientLogs, s.clientNames, s.clientStatus,
    s.clientLastHeartbeat, s.pendingHandshakes, s.clientStateCache,
    s.clientUsernameStatus>>

\* C28: cleanup run twice in a row for an id leaves the tables that cleanup
\* run once leaves, the second run publishing nothing; cleanup for an id
\* that has no record changes no table and publishes no event.
C28_CleanupIdempotent ==
  \A id \in ClientIds :
    LET once == cleanupClient(Cur, id)
        twice == cleanupClient(once, id)
    IN /\ Tables(twice) = Tables(once)
       /\ twice.out = once.out
       /\ id \notin DOMAIN tcpClients =>
            (Tables(once) = Tables(Cur) /\ once.out = <<>>)

\* C29: while a record's username-poll state exists, hasUsername and
\* requestSent never go from true back to false, whatever the client sends
\* (a repeated handshake response included) and whenever the poller ticks.
C29_PollFlagsMonotonic ==
  [][\A id \in DOMAIN clientUsernameStatus \cap DOMAIN clientUsernameStatus' :
       /\ clientUsernameStatus[id].hasUsername
            => clientUsernameStatus'[id].hasUsername
       /\ clientUsernameStatus[id].requestSent
            => clientUsernameStatus'[id].requestSent]_vars

\* the clientName a heartbeat line carries when it is a new display name
NewName(s, id, line) ==
  IF line.kind = "json" /\ Truthy(line.json.clientName)
       /\ line.json.clientName.s # NameOf(s, id)
  THEN <<line.json.clientName.s>> ELSE <<>>

\* the heartbeat stamps the present time on the record and touches nothing
\* else but the display name, which takes the names given
Stamped(s1, s2, id, names) ==
  /\ s2.clientLastHeartbeat = Put(s1.clientLastHeartbeat, id, s1.now)
  /\ s2.clientStatus = s1.clientStatus
  /\ s2.clientStateCache = s1.clientStateCache
  /\ s2.clientLogs = s1.clientLogs
  /\ s2.clientUsernameStatus = s1.clientUsernameStatus
  /\ s2.pendingHandshakes = s1.pendingHandshakes
  /\ s2.tcpClients = s1.tcpClients
  /\ s2.masterLog = s1.masterLog
  /\ s2.sockets = s1.sockets
  /\ s2.wr = s1.wr
  /\ s2.out = s1.out \o [i \in DOMAIN names |-> TabName(id, names[i])]
  /\ s2.clientNames =
       IF names = <<>> THEN s1.clientNames ELSE Put(s1.clientNames, id, names[1])

\* C30 as amended: a heartbeat of an authenticated client (legacy $Heartbeat
\* or JSON type heartbeat) sets the record's lastHeartbeat to the current
\* time and leaves status, statusCache and the log ring unchanged, whatever
\* status, username or message the JSON carries; it publishes no event and
\* leaves displayName unchanged unless the JSON carries a non-empty
\* clientName other than the display name, which becomes the display name
\* and is published as one update_tab_name.
C30_HeartbeatStampsOnly ==
  \A sock \in Socks :
    Authenticated(sock) =>
      \A line \in HeartbeatLines :
        LET id == sockets[sock].id
        IN Stamped(Cur, onLine(Cur, sock, id, line), id, NewName(Cur, id, line))

\* C30: a heartbeat of an authenticated client sets lastHeartbeat to the
\* current time, publishes no event and leaves displayName, status,
\* statusCache and the log ring unchanged, whatever else the JSON carries.
C30_HeartbeatPublishesNothing ==
  \A sock \in Socks :
    Authenticated(sock) =>
      \A line \in HeartbeatLines :
        LET id == sockets[sock].id
        IN Stamped(Cur, onLine(Cur, sock, id, line), id, <<>>)

\* a heartbeat that names the client, handled some time after the
\* handshake: the name published, the heartbeat newer than the challenge
C30_Witness ==
  /\ last.op = "data"
  /\ last.lines = <<JsonLine("json-heartbeat-named",
                             Msg("heartbeat", Str("Bob"), Undef, Undef, Undef))>>
  /\ last.out = <<TabName(last.id, "Bob")>>
  /\ AuthenticatedIn(Cur, last.id)
  /\ clientNames[last.id] = "Bob"
  /\ clientLastHeartbeat[last.id] = 0
  /\ pendingHandshakes[last.id].timestamp < 0

\* the id is on the same connection before and after the step
SameConnection(id) ==
  /\ id \in DOMAIN tcpClients
  /\ id \in DOMAIN tcpClients'
  /\ tcpClients'[id] = tcpClients[id]

\* a poller tick writes username_request only when requestSent is false,
\* and sets it
RequestSetsRequestSent(id) ==
  (last'.op = "usernameTick" /\ last'.id = id /\ UsernameRequested(last'.wr))
    => /\ ~clientUsernameStatus[id].requestSent
       /\ id \in DOMAIN clientUsernameStatus'
       /\ clientUsernameStatus'[id].requestSent

\* requestSent stays true for as long as the connection lasts
RequestSentStays(id) ==
  (SameConnection(id) /\ clientUsernameStatus[id].requestSent)
    => /\ id \in DOMAIN clientUsernameStatus'
       /\ clientUsernameStatus'[id].requestSent

\* C31: over the lifetime of one connection the username poller writes at
\* most one username_request: a tick sends the request only while
\* requestSent is false and sets it, and once requestSent is true it stays
\* true on that connection, so no later tick sends another.
C31_AtMostOneRequest ==
  [][\A id \in DOMAIN clientUsernameStatus :
       RequestSetsRequestSent(id) /\ RequestSentStays(id)]_vars

\* a username that is missing, empty or null
EmptyUsernames == {Undef, Str(""), Null}

EmptyResponse == Entry("Username response received but empty", <<>>)

\* the response left the poll state as it was and only appended and
\* published the log entry, after the display name took the names given
OnlyLogged(s1, s2, id, names) ==
  /\ s2.clientUsernameStatus = s1.clientUsernameStatus
  /\ s2.clientNames =
       IF names = <<>> THEN s1.clientNames ELSE Put(s1.clientNames, id, names[1])
  /\ s2.out = (s1.out \o [i \in DOMAIN names |-> TabName(id, names[i])])
                \o <<[type |-> "log", id |-> id, message |-> EmptyResponse]>>
  /\ s2.clientLogs =
       Put(s1.clientLogs, id, Newest(Append(LogOf(s1, id), EmptyResponse), cap))
  /\ s2.clientStatus = s1.clientStatus
  /\ s2.clientStateCache = s1.clientStateCache
  /\ s2.clientLastHeartbeat = s1.clientLastHeartbeat
  /\ s2.pendingHandshakes = s1.pendingHandshakes
  /\ s2.tcpClients = s1.tcpClients
  /\ s2.masterLog = s1.masterLog
  /\ s2.sockets = s1.sockets
  /\ s2.wr = s1.wr

\* C32 as amended: a username_response whose username is empty or missing
\* leaves hasUsername and requestSent unchanged and appends one log entry;
\* it leaves displayName unchanged and publishes no update_tab_name unless
\* the message carries a non-empty clientName other than the display name,
\* which becomes the display name and is published as one update_tab_name.
C32_EmptyUsernameOnlyLogged ==
  \A sock \in Socks :
    Authenticated(sock) =>
      \A clientName \in ClientNameFields, username \in EmptyUsernames :
        LET id == sockets[sock].id
            line == UsernameResponse(clientName, username)
        IN OnlyLogged(Cur, onLine(Cur, sock, id, line), id, NewName(Cur, id, line))

\* C32: a username_response whose username is empty or missing leaves
\* hasUsername, requestSent and displayName unchanged, publishes no
\* update_tab_name and only appends a log entry.
C32_EmptyUsernameChangesNothing ==
  \A sock \in Socks :
    Authenticated(sock) =>
      \A clientName \in ClientNameFields, username \in EmptyUsernames :
        LET id == sockets[sock].id
            line == UsernameResponse(clientName, username)
        IN OnlyLogged(Cur, onLine(Cur, sock, id, line), id, <<>>)

\* an empty answer to the poller's request: only the log entry
C32_Witness ==
  /\ last.op = "data"
  /\ last.lines = <<UsernameResponse(Undef, Str(""))>>
  /\ last.out = <<[type |-> "log", id |-> last.id, message |-> EmptyResponse]>>
  /\ clientUsernameStatus[last.id].requestSent
  /\ ~clientUsernameStatus[last.id].hasUsername
  /\ clientNames[last.id] = last.id

(***************************************************************************)
(* Poller traffic with the poll interval of every client firing again and  *)
(* again (setInterval, line 842) for as long as it is scheduled.           *)
(***************************************************************************)
SpecRetry ==
  /\ Init
  /\ [][NextPoller]_vars
  /\ \A id \in ClientIds : WF_vars(UsernameTick(id))

\* the client has just answered the poller's request with an empty username
AnsweredEmpty(id) ==
  /\ last.op = "data"
  /\ last.id = id
  /\ last.lines = <<UsernameResponse(Undef, Str(""))>>
  /\ AuthenticatedIn(Cur, id)
  /\ id \in DOMAIN clientUsernameStatus
  /\ clientUsernameStatus[id].requestSent
  /\ ~clientUsernameStatus[id].hasUsername

\* the poller has just written a username_request to the client
PollerAsked(id) ==
  last.op = "usernameTick" /\ last.id = id /\ UsernameRequested(last.wr)

\* C33: when a client has answered a username_request with an empty
\* username, then, the poll timer firing on, the poller sends a further
\* username_request, unless the connection ends or a username arrives
\* first.
C33_PollerRetries ==
  \A id \in ClientIds :
    AnsweredEmpty(id) ~>
      \/ PollerAsked(id)
      \/ ~AuthenticatedIn(Cur, id)
      \/ clientUsernameStatus[id].hasUsername


\* the cached status of client `id` in `s2` differs from the one in `s1`
\* in no key but `field`
OnlyFieldChanged(s1, s2, id, field) ==
  /\ id \in DOMAIN s2.clientStateCache
  /\ DOMAIN s2.clientStateCache[id] \subseteq
       DOMAIN s1.clientStateCache[id] \cup {field}
  /\ \A k \in DOMAIN s1.clientStateCache[id] \ {field} :
       /\ k \in DOMAIN s2.clientStateCache[id]
       /\ s2.clientStateCache[id][k] = s1.clientStateCache[id][k]

\* C34: a legacy status directive handled for an authenticated client that
\* has a cached status changes at most the directive's own field of that
\* cache: every other key, well-known or not, stays with its value, and no
\* key but the directive's is added.
C34_DirectiveChangesOwnFieldOnly ==
  \A sock \in Socks :
    Authenticated(sock) /\ sockets[sock].id \in DOMAIN clientStateCache =>
      \A d \in LegacyDirectives :
        OnlyFieldChanged(Cur, onLine(Cur, sock, sockets[sock].id, d.line),
                         sockets[sock].id, d.field)

\* a directive replaced the script name next to a key outside the four
\* well-known fields
C34_Witness ==
  /\ last.op = "data"
  /\ last.lines =
       <<TextLine("$LoadedScript:a:b", <<"$LoadedScript", "a", "b">>, "a:b")>>
  /\ JsonCount(last.out) = 1
  /\ last.id \in DOMAIN clientStateCache
  /\ clientStateCache[last.id] =
       [loaded |-> Bool(TRUE), extra |-> Obj([hp |-> Str("1")]),
        loadedScript |-> Str("a:b")]


\* the four fields of the summary status (line 722)
SummaryFields == {"loaded", "logged", "scriptRunning", "loadedScript"}

LF == "\n"

\* buf.toString().split(/\r?\n/).map(s => s.trim()).filter(Boolean), the
\* text before the first line feed starting with `text`
RECURSIVE split(_, _)
split(buf, text) ==
  IF buf = <<>>
  THEN IF text = "" THEN <<>> ELSE <<text>>
  ELSE IF Head(buf) = LF
  THEN (IF text = "" THEN <<>> ELSE <<text>>) \o split(Tail(buf), "")
  ELSE split(Tail(buf), text \o Head(buf))

LogText == "{\"type\":\"log\",\"message\":\"hi\"}"

\* what lines 736-755 make of a text: JSON.parse succeeds on the JSON text
\* only, and the legacy conversion cuts every other text at its colons
parse(text) ==
  CASE text = LogText ->
         JsonLine(text, Msg("log", Undef, Undef, Undef, Str("hi")))
    [] text = "pe\":\"log\",\"message\":\"hi\"}" ->
         TextLine(text, <<"pe\"", "\"log\",\"message\"", "\"hi\"}">>, "")
    [] text = "$LoadedScript:farm" ->
         TextLine(text, <<"$LoadedScript", "farm">>, "farm")
    [] text = "$LoadedScript:fa" ->
         TextLine(text, <<"$LoadedScript", "fa">>, "fa")
    [] text = "$IsLoaded:true" ->
         TextLine(text, <<"$IsLoaded", "true">>, "true")
    [] text = "aded:true" ->
         TextLine(text, <<"aded", "true">>, "true")
    [] OTHER -> TextLine(text, <<text>>, "")

\* the lines of one read
linesOf(buf) == [i \in DOMAIN split(buf, "") |-> parse(split(buf, "")[i])]

\* the lines a client sends, each in the two pieces a TCP segment boundary
\* may cut it into
WireLines ==
  { <<"{\"ty", "pe\":\"log\",\"message\":\"hi\"}">>,
    <<"$LoadedScript:fa", "rm">>,
    <<"$IsLo", "aded:true">>,
    <<"hel", "lo">> }

\* a read holds a whole line, two lines, or one side of a segment boundary
WireReads ==
  { <<w[1], w[2], LF>> : w \in WireLines }
    \cup { <<w[1]>> : w \in WireLines }
    \cup { <<w[2], LF>> : w \in WireLines }
    \cup { <<"hel", "lo", LF, LF, "$IsLo", "aded:true", LF>> }

NextWire ==
  \/ \E id \in ClientIds : Accept(id)
  \/ \E sock \in Socks : Data(sock, <<GoodResponse(sock)>>)
  \/ \E sock \in Socks : \E buf \in WireReads : Data(sock, linesOf(buf))
  \/ \E sock \in Socks : Close(sock)

SpecWire == Init /\ [][NextWire]_vars

\* the line `w` arriving in two reads ends as it does arriving in one
SameSplit(sock, w) ==
  LET id == sockets[sock].id
      whole == onData(Cur, sock, id, linesOf(<<w[1], w[2], LF>>))
      first == onData(Cur, sock, id, linesOf(<<w[1]>>))
      both == onData([first EXCEPT !.out = <<>>, !.wr = <<>>], sock, id,
                     linesOf(<<w[2], LF>>))
  IN /\ Tables(both) = Tables(whole)
     /\ both.masterLog = whole.masterLog
     /\ first.out \o both.out = whole.out

\* C36: a line whose bytes arrive in two data events is processed as the
\* one line that was sent: the tables, the master log and the published
\* events end as they do when the line arrives in one read.
C36_SplitLineIsOneLine ==
  \A sock \in Socks :
    ~crashed /\ sockets[sock].state = "open" =>
      \A w \in WireLines : SameSplit(sock, w)


\* an event of one of the kinds that carry the id of a client
CarriesId(e, id) ==
  /\ e.type \in {"log", "update_status", "status_update_json", "update_tab_name"}
  /\ e.id = id

\* C37: what an open observer receives when a connection is accepted has
\* the client_connect of the new id before every event that carries that
\* id: client_connect is the first event published for the connection.
C37_ConnectComesFirst ==
  \A o \in DOMAIN wsClients :
    (last.op = "accept" /\ wsClients[o].readyState = "OPEN") =>
      \A i \in DOMAIN wsClients[o].got :
        CarriesId(wsClients[o].got[i], last.id) =>
          \E j \in 1..(i - 1) :
            /\ wsClients[o].got[j].type = "client_connect"
            /\ wsClients[o].got[j].id = last.id


\* C38: when the first line of a read gets the connection rejected (socket
\* destroyed, record cleaned up), the lines after it in the read are not
\* processed: the tables, the master log and the published events are those
\* the rejecting line leaves.
C38_NothingAfterRejection ==
  \A sock \in Socks :
    ~crashed /\ sockets[sock].state = "open" =>
      \A rest \in {TextLine("hello", <<"hello">>, ""),
                   StatusUpdate("json-status-loaded", StatusOf(TRUE, ""))} :
        LET id == sockets[sock].id
            rejected == onData(Cur, sock, id, <<BadResponse(sock)>>)
            whole == onData(Cur, sock, id, <<BadResponse(sock), rest>>)
        IN (rejected.sockets[sock].state = "destroyed"
              /\ id \notin DOMAIN rejected.tcpClients)
             => /\ Tables(whole) = Tables(rejected)
                /\ whole.masterLog = rejected.masterLog
                /\ whole.out = rejected.out


\* C39: the handshake timeout timer of a connection that has ended, firing
\* when a later connection holds the same client id, removes nothing of
\* that connection's record and publishes no client_disconnect for it.
C39_TimerActsOnOwnConnection ==
  \A sock \in Socks :
    LET id == sockets[sock].id
        fired == handshakeTimeout([Cur EXCEPT !.sockets[sock].timer = FALSE],
                                  sock, id)
    IN (/\ ~crashed
        /\ sockets[sock].timer
        /\ 0 >= sockets[sock].due
        /\ sockets[sock].state = "closed"
        /\ id \in DOMAIN tcpClients
        /\ tcpClients[id] # sock)
         => /\ Tables(fired) = Tables(Cur)
            /\ \A i \in DOMAIN fired.out : fired.out[i] # Disconnect(id)
            /\ fired.sockets[tcpClients[id]].state = "open"


(***************************************************************************)
(* The front-end with the server: clients come and go while the page's     *)
(* socket connects, is lost and connects again.  The page's logs have no   *)
(* capacity; the traffic stops when one of them is MaxPageLogs long.       *)
(***************************************************************************)
MaxPageLogs == 3

PageSmall ==
  /\ Len(frontEnd.masterLogs) < MaxPageLogs
  /\ \A id \in DOMAIN frontEnd.clients :
       Len(frontEnd.clients[id].logs) < MaxPageLogs

PageReads(sock) ==
  { <<GoodResponse(sock)>>,
    <<StatusUpdate("json-status-loaded", StatusOf(TRUE, ""))>> }

NextPage ==
  /\ PageSmall
  /\ \/ \E id \in ClientIds : Accept(id)
     \/ \E sock \in Socks : \E lines \in PageReads(sock) : Data(sock, lines)
     \/ \E sock \in Socks : Close(sock)
     \/ WsConnect(Browser)
     \/ WsDrop(Browser, "CLOSED")
     \/ WsClose(Browser)

SpecPage == InitWith(CatchUpCap) /\ [][NextPage]_vars

\* C40: when the front-end's socket has connected, the first time or
\* again, and the page has applied the catch-up replay, the page's master
\* log is the server's master log and its client table holds exactly the
\* connected clients.
C40_PageEqualsServerAfterReplay ==
  (last.op = "wsConnect" /\ last.id = Browser) =>
    /\ frontEnd.masterLogs = masterLog
    /\ DOMAIN frontEnd.clients = DOMAIN tcpClients

=============================================================================
